---- MODULE Spec2Model ----
(***************************************************************************)
(* Byte-level model of the container-stream rewriter of web-image-meta:   *)
(* the JPEG segment walk (clean_metadata, read_comment, write_comment),   *)
(* the EXIF orientation codec, and the PNG chunk walk (clean_chunks,      *)
(* read_text_chunks, add_text_chunk).  Buffers are sequences of bytes     *)
(* 0..255; Rust's 0-based indices are kept and mapped by At and Slice.    *)
(***************************************************************************)
EXTENDS Integers, Sequences, FiniteSets, TLC

(* ---------------- bounds of the explored inputs ---------------- *)

\* number of optional segments / chunks an initial buffer is built from
MaxSegs == 2
\* number of library calls applied one after another to the buffer
MaxCalls == 2

(* ---------------- byte helpers ---------------- *)

\* data[i] of Rust (0-based)
At(d, i) == d[i + 1]

\* &data[a..b] of Rust (0-based, b exclusive)
Slice(d, a, b) == SubSeq(d, a + 1, b)

\* &data[a..]
SliceFrom(d, a) == SubSeq(d, a + 1, Len(d))

\* u16 big-endian / little-endian reads and writes
U16be(hi, lo) == hi * 256 + lo

U16le(b0, b1) == b1 * 256 + b0

\* A u32 widened to usize (64 bit).  The model only compares such a value with
\* buffer positions, so every value of 2^30 or more is held as 2^30.
U32be(b0, b1, b2, b3) ==
    IF b0 >= 64 THEN 1073741824 ELSE ((b0 * 256 + b1) * 256 + b2) * 256 + b3

U32le(b0, b1, b2, b3) == U32be(b3, b2, b1, b0)

Be16Bytes(n) == << (n \div 256) % 256, n % 256 >>

Be32Bytes(n) == << (n \div 16777216) % 256, (n \div 65536) % 256, (n \div 256) % 256, n % 256 >>

RECURSIVE Concat(_)
Concat(ss) == IF ss = << >> THEN << >> ELSE Head(ss) \o Concat(Tail(ss))

\* all sequences over S of length 0..n
SeqsUpTo(S, n) == UNION { [1..k -> S] : k \in 0..n }

(* ---------------- errors and results (lib.rs) ---------------- *)

\* Option<u16>::None
None == -1

Ok(v) == [kind |-> "Ok", value |-> v]

InvalidFormat == [kind |-> "InvalidFormat", value |-> << >>]

ParseError == [kind |-> "ParseError", value |-> << >>]

\* an index or slice out of range: the call unwinds with a panic
Panic == [kind |-> "Panic", value |-> << >>]

(* ---------------- JPEG constants (jpeg.rs) ---------------- *)

JPEG_SOI == << 255, 216 >>

MARKER_COM == 254

MARKER_APP1 == 225

MARKER_APP2 == 226

MARKER_SOS == 218

MARKER_DQT == 219

MARKER_APP0 == 224

ExifPrefix == << 69, 120, 105, 102 >>

IccPrefix == << 73, 67, 67, 95, 80, 82, 79, 70, 73, 76, 69, 0 >>

\* mutant of IsStandalone: only the restart markers D0-D7 carry no length
IsStandaloneRstOnly(marker) == marker >= 208 /\ marker <= 215

IsStandalone(marker) == marker >= 208 /\ marker <= 217

(* ---------------- EXIF orientation codec (jpeg.rs) ---------------- *)

\* u16 / u32 read in the byte order the TIFF header declared (endian = TRUE: "II")
ReadU16(endian, d, off) ==
    IF endian THEN U16le(At(d, off), At(d, off + 1)) ELSE U16be(At(d, off), At(d, off + 1))

ReadU32(endian, d, off) ==
    IF endian
    THEN U32le(At(d, off), At(d, off + 1), At(d, off + 2), At(d, off + 3))
    ELSE U32be(At(d, off), At(d, off + 1), At(d, off + 2), At(d, off + 3))

\* what a u16 read at an index past the end of the slice gives: the panic of
\* the bounds check of exif_data[..]
OutOfBounds == -2

\* exif_data[off], exif_data[off + 1] read as a u16
IndexU16(endian, d, off) ==
    IF off + 2 > Len(d) THEN OutOfBounds ELSE ReadU16(endian, d, off)

\* mutant of ScanEntries: an entry is accepted when its tag lies in the buffer
RECURSIVE ScanEntriesChecksTagOnly(_, _, _, _, _)
ScanEntriesChecksTagOnly(exif_data, endian, ifd0_offset, entry_count, i) ==
    IF i >= entry_count THEN None
    ELSE LET entry_offset == ifd0_offset + 2 + (i * 12) IN
         IF entry_offset + 2 > Len(exif_data) THEN None
         ELSE IF IndexU16(endian, exif_data, entry_offset) = 274
              THEN IndexU16(endian, exif_data, entry_offset + 8)
              ELSE ScanEntriesChecksTagOnly(exif_data, endian, ifd0_offset, entry_count, i + 1)

\* the for loop over the IFD0 entries, jpeg.rs 303-327
RECURSIVE ScanEntries(_, _, _, _, _)
ScanEntries(exif_data, endian, ifd0_offset, entry_count, i) ==
    IF i >= entry_count THEN None
    ELSE LET entry_offset == ifd0_offset + 2 + (i * 12) IN
         IF entry_offset + 12 > Len(exif_data) THEN None
         ELSE LET tag == IndexU16(endian, exif_data, entry_offset) IN
              IF tag = OutOfBounds THEN OutOfBounds
              ELSE IF tag = 274
              THEN IndexU16(endian, exif_data, entry_offset + 8)
              ELSE ScanEntries(exif_data, endian, ifd0_offset, entry_count, i + 1)

extract_orientation_from_exif(exif_data) ==
    IF Len(exif_data) < 8 THEN None
    ELSE IF Slice(exif_data, 0, 2) # << 73, 73 >> /\ Slice(exif_data, 0, 2) # << 77, 77 >> THEN None
    ELSE LET endian == Slice(exif_data, 0, 2) = << 73, 73 >>
             magic == ReadU16(endian, exif_data, 2)
             ifd0_offset == ReadU32(endian, exif_data, 4)
         IN IF magic # 42 THEN None
            ELSE IF ifd0_offset + 2 > Len(exif_data) THEN None
            ELSE LET entry_count == IndexU16(endian, exif_data, ifd0_offset) IN
                 IF entry_count = OutOfBounds THEN OutOfBounds
                 ELSE ScanEntries(exif_data, endian, ifd0_offset, entry_count, 0)

\* mutant of MinimalExifBody: the value is written high byte first
MinimalExifBodyValueBe(orientation) ==
    << 255, MARKER_APP1 >> \o << 0, 0 >> \o ExifPrefix \o << 0, 0 >>
      \o << 73, 73 >> \o << 42, 0 >> \o << 8, 0, 0, 0 >>
      \o << 1, 0 >>
      \o << 18, 1 >> \o << 3, 0 >> \o << 1, 0, 0, 0 >>
      \o << (orientation \div 256) % 256, orientation % 256, 0, 0 >>
      \o << 0, 0, 0, 0 >>

\* the segment with its size field still zero, jpeg.rs 157-183
MinimalExifBody(orientation) ==
    << 255, MARKER_APP1 >> \o << 0, 0 >> \o ExifPrefix \o << 0, 0 >>
      \o << 73, 73 >> \o << 42, 0 >> \o << 8, 0, 0, 0 >>
      \o << 1, 0 >>
      \o << 18, 1 >> \o << 3, 0 >> \o << 1, 0, 0, 0 >>
      \o << orientation % 256, (orientation \div 256) % 256, 0, 0 >>
      \o << 0, 0, 0, 0 >>

create_minimal_exif(orientation) ==
    LET exif == MinimalExifBody(orientation)
        size == (Len(exif) - 2) % 65536
    IN [exif EXCEPT ![3] = (size \div 256) % 256, ![4] = size % 256]

(* ---------------- the external JPEG validator ---------------- *)

\* Decoder::read_marker: bytes that are not FF are skipped, FF fill bytes and
\* stuffed FF 00 pairs are passed over; the index of the marker code, or -1
\* when the buffer ends first.
RECURSIVE ReadMarker(_, _)
ReadMarker(data, pos) ==
    IF pos + 1 >= Len(data) THEN -1
    ELSE IF At(data, pos) # 255 THEN ReadMarker(data, pos + 1)
    ELSE IF At(data, pos + 1) = 255 THEN ReadMarker(data, pos + 1)
    ELSE IF At(data, pos + 1) = 0 THEN ReadMarker(data, pos + 2)
    ELSE pos + 1

IsSof(marker) == marker \in ((192..207) \ {196, 200, 204})

IsTableOrApp(marker) == marker \in ({196, 219, 221, 254} \cup (224..239))

\* Decoder::read_info: the header is read up to the first frame header; the
\* frame must give a width and a height that are not zero.
RECURSIVE ReadInfo(_, _)
ReadInfo(data, pos) ==
    LET m == ReadMarker(data, pos) IN
    IF m = -1 THEN FALSE
    ELSE IF m + 2 >= Len(data) THEN FALSE
    ELSE LET marker == At(data, m)
             size == U16be(At(data, m + 1), At(data, m + 2))
             end == m + 1 + size
         IN IF size < 2 \/ end > Len(data) THEN FALSE
            ELSE IF IsSof(marker)
                 THEN /\ size >= 8
                      /\ U16be(At(data, m + 4), At(data, m + 5)) # 0
                      /\ U16be(At(data, m + 6), At(data, m + 7)) # 0
                 ELSE IF IsTableOrApp(marker) THEN ReadInfo(data, end)
                 ELSE FALSE

validate_jpeg_decode(data) ==
    /\ Len(data) >= 2
    /\ Slice(data, 0, 2) = JPEG_SOI
    /\ ReadInfo(data, 2)

(* ---------------- clean_metadata (jpeg.rs 22-153) ---------------- *)

\* the match of lines 75-100, without the orientation capture
KeepSegment(data, marker, pos, segment_size) ==
    CASE marker \in ((192..195) \cup (197..207)) -> TRUE
      [] marker = 196 -> TRUE
      [] marker = MARKER_DQT -> TRUE
      [] marker = 221 -> TRUE
      [] marker = MARKER_APP0 -> TRUE
      [] marker = MARKER_APP1 -> FALSE
      [] marker = MARKER_APP2 -> segment_size > 14 /\ Slice(data, pos + 2, pos + 14) = IccPrefix
      [] OTHER -> FALSE

\* mutant of CapturesExif: every Exif segment is parsed, not only the first
CapturesExifEvery(data, marker, pos, segment_size, has_exif) ==
    /\ marker = MARKER_APP1
    /\ segment_size > 8
    /\ Slice(data, pos + 2, pos + 6) = ExifPrefix

\* the guard of line 85
CapturesExif(data, marker, pos, segment_size, has_exif) ==
    /\ marker = MARKER_APP1
    /\ ~has_exif
    /\ segment_size > 8
    /\ Slice(data, pos + 2, pos + 6) = ExifPrefix

\* the marker walk of lines 38-108; kind is Ok when the loop ends normally
RECURSIVE CleanWalk(_, _, _, _, _)
CleanWalk(data, pos0, output, has_exif, orientation) ==
    IF ~(pos0 < Len(data) - 1)
    THEN [kind |-> "Ok", output |-> output, orientation |-> orientation]
    ELSE IF At(data, pos0) # 255
    THEN [kind |-> "ParseError", output |-> output, orientation |-> orientation]
    ELSE
      LET marker == At(data, pos0 + 1)
          pos == pos0 + 2
      IN IF marker = MARKER_SOS
         THEN [kind |-> "Ok",
               output |-> output \o << 255, marker >> \o SliceFrom(data, pos),
               orientation |-> orientation]
         ELSE IF IsStandalone(marker)
         THEN CleanWalk(data, pos, output \o << 255, marker >>, has_exif, orientation)
         ELSE IF pos + 2 > Len(data)
         THEN [kind |-> "ParseError", output |-> output, orientation |-> orientation]
         ELSE
           LET segment_size == U16be(At(data, pos), At(data, pos + 1))
               segment_end == pos + segment_size
           IN IF segment_size < 2 \/ segment_end > Len(data)
              THEN [kind |-> "ParseError", output |-> output, orientation |-> orientation]
              ELSE
                LET captures == CapturesExif(data, marker, pos, segment_size, has_exif)
                    keep_segment == KeepSegment(data, marker, pos, segment_size)
                    extracted == IF captures
                                 THEN extract_orientation_from_exif(Slice(data, pos + 8, segment_end))
                                 ELSE orientation
                IN IF extracted = OutOfBounds
                   THEN [kind |-> "Panic", output |-> output, orientation |-> orientation]
                   ELSE CleanWalk(data, segment_end,
                                  IF keep_segment
                                  THEN output \o << 255, marker >> \o Slice(data, pos, segment_end)
                                  ELSE output,
                                  has_exif \/ captures,
                                  extracted)

\* the splice scan of lines 119-135; kind is Panic when an index leaves the buffer
RECURSIVE SpliceScan(_, _, _, _, _)
SpliceScan(output, exif_data, i, final_output, inserted) ==
    IF ~(i < Len(output) - 1)
    THEN [kind |-> "Ok",
          final_output |-> IF i < Len(output) THEN Append(final_output, At(output, i))
                           ELSE final_output,
          inserted |-> inserted]
    ELSE IF At(output, i) = 255 /\ At(output, i + 1) = MARKER_APP0 /\ ~inserted
    THEN IF i + 3 >= Len(output)
         THEN [kind |-> "Panic", final_output |-> final_output, inserted |-> inserted]
         ELSE LET marker_size == U16be(At(output, i + 2), At(output, i + 3))
                  marker_end == i + 2 + marker_size
              IN IF marker_end > Len(output)
                 THEN [kind |-> "Panic", final_output |-> final_output, inserted |-> inserted]
                 ELSE SpliceScan(output, exif_data, marker_end,
                                 final_output \o Slice(output, i, marker_end) \o exif_data,
                                 TRUE)
    ELSE SpliceScan(output, exif_data, i + 1, Append(final_output, At(output, i)), inserted)

\* lines 111-147: the result of the call once an orientation in 1..8 was captured
SpliceOrientation(output, orientation_value) ==
    LET exif_data == create_minimal_exif(orientation_value)
        scan == SpliceScan(output, exif_data, 0, << >>, FALSE)
    IN IF scan.kind = "Panic" THEN Panic
       ELSE IF ~scan.inserted
            THEN Ok(JPEG_SOI \o exif_data \o SliceFrom(output, 2))
            ELSE Ok(scan.final_output)

\* TRUE when the call reaches line 150 and validates the buffer it built
CleanRevalidates(walk) ==
    ~(walk.orientation # None /\ walk.orientation >= 1 /\ walk.orientation <= 8)

clean_metadata(data) ==
    IF Len(data) < 4 \/ Slice(data, 0, 2) # JPEG_SOI THEN InvalidFormat
    ELSE IF ~validate_jpeg_decode(data) THEN InvalidFormat
    ELSE LET walk == CleanWalk(data, 2, JPEG_SOI, FALSE, None) IN
         IF walk.kind = "Panic" THEN Panic
         ELSE IF walk.kind # "Ok" THEN ParseError
         ELSE IF ~CleanRevalidates(walk)
              THEN SpliceOrientation(walk.output, walk.orientation)
              ELSE IF ~validate_jpeg_decode(walk.output) THEN InvalidFormat
                   ELSE Ok(walk.output)


(* ---------------- String::from_utf8_lossy ---------------- *)

\* a Rust String is modelled by its UTF-8 bytes
IsCont(b) == b >= 128 /\ b <= 191

\* number of bytes the lead byte announces, 0 for a byte that cannot lead
Utf8Width(b0) ==
    IF b0 < 128 THEN 1
    ELSE IF b0 \in 194..223 THEN 2
    ELSE IF b0 \in 224..239 THEN 3
    ELSE IF b0 \in 240..244 THEN 4
    ELSE 0

SecondOk(b0, b1) ==
    CASE b0 = 224 -> b1 \in 160..191
      [] b0 = 237 -> b1 \in 128..159
      [] b0 = 240 -> b1 \in 144..191
      [] b0 = 244 -> b1 \in 128..143
      [] OTHER -> IsCont(b1)

\* length of the longest prefix of v that starts a well-formed sequence
Utf8Matched(v) ==
    LET w == Utf8Width(v[1]) IN
    IF w <= 1 THEN 1
    ELSE IF ~(Len(v) >= 2 /\ SecondOk(v[1], v[2])) THEN 1
    ELSE IF w = 2 THEN 2
    ELSE IF ~(Len(v) >= 3 /\ IsCont(v[3])) THEN 2
    ELSE IF w = 3 THEN 3
    ELSE IF ~(Len(v) >= 4 /\ IsCont(v[4])) THEN 3
    ELSE 4

\* number of bytes below 128 that v starts with
AsciiRun(v) ==
    IF \A k \in 1..Len(v) : v[k] < 128 THEN Len(v)
    ELSE (CHOOSE k \in 1..Len(v) : v[k] >= 128 /\ \A j \in 1..(k - 1) : v[j] < 128) - 1

\* every ill-formed sequence becomes U+FFFD (EF BF BD); a run of ASCII bytes
\* is taken over in one step
RECURSIVE from_utf8_lossy(_)
from_utf8_lossy(v) ==
    IF v = << >> THEN << >>
    ELSE LET r == AsciiRun(v)
             w == Utf8Width(v[1])
             n == Utf8Matched(v)
         IN IF r > 0
            THEN SubSeq(v, 1, r) \o from_utf8_lossy(SubSeq(v, r + 1, Len(v)))
            ELSE IF w # 0 /\ n = w
            THEN SubSeq(v, 1, n) \o from_utf8_lossy(SubSeq(v, n + 1, Len(v)))
            ELSE << 239, 191, 189 >> \o from_utf8_lossy(SubSeq(v, n + 1, Len(v)))

(* ---------------- read_comment (jpeg.rs 194-253) ---------------- *)

\* Option<String>
Some(text) == [some |-> TRUE, text |-> text]

NoString == [some |-> FALSE, text |-> << >>]

\* mutant of ReadCommentWalk: SOS is read as a sized segment and the walk goes on
RECURSIVE ReadCommentWalkPastSos(_, _)
ReadCommentWalkPastSos(data, pos0) ==
    IF ~(pos0 < Len(data) - 1) THEN Ok(NoString)
    ELSE IF At(data, pos0) # 255 THEN ParseError
    ELSE
      LET marker == At(data, pos0 + 1)
          pos == pos0 + 2
      IN IF IsStandalone(marker) THEN ReadCommentWalkPastSos(data, pos)
         ELSE IF pos + 2 > Len(data) THEN ParseError
         ELSE
           LET segment_size == U16be(At(data, pos), At(data, pos + 1))
               segment_end == pos + segment_size
           IN IF segment_size < 2 \/ segment_end > Len(data) THEN ParseError
              ELSE IF marker = MARKER_COM
                   THEN IF segment_size > 2
                        THEN Ok(Some(from_utf8_lossy(Slice(data, pos + 2, segment_end))))
                        ELSE Ok(Some(<< >>))
                   ELSE ReadCommentWalkPastSos(data, segment_end)

RECURSIVE ReadCommentWalk(_, _)
ReadCommentWalk(data, pos0) ==
    IF ~(pos0 < Len(data) - 1) THEN Ok(NoString)
    ELSE IF At(data, pos0) # 255 THEN ParseError
    ELSE
      LET marker == At(data, pos0 + 1)
          pos == pos0 + 2
      IN IF marker = MARKER_SOS THEN Ok(NoString)
         ELSE IF IsStandalone(marker) THEN ReadCommentWalk(data, pos)
         ELSE IF pos + 2 > Len(data) THEN ParseError
         ELSE
           LET segment_size == U16be(At(data, pos), At(data, pos + 1))
               segment_end == pos + segment_size
           IN IF segment_size < 2 \/ segment_end > Len(data) THEN ParseError
              ELSE IF marker = MARKER_COM
                   THEN IF segment_size > 2
                        THEN Ok(Some(from_utf8_lossy(Slice(data, pos + 2, segment_end))))
                        ELSE Ok(Some(<< >>))
                   ELSE ReadCommentWalk(data, segment_end)

\* mutant of read_comment: the stream is walked before the signature is looked at
read_comment_walks_first(data) ==
    IF Len(data) < 4 THEN InvalidFormat
    ELSE LET walked == ReadCommentWalk(data, 2) IN
         IF walked.kind = "ParseError" THEN ParseError
         ELSE IF Slice(data, 0, 2) # JPEG_SOI THEN InvalidFormat
         ELSE IF ~validate_jpeg_decode(data) THEN InvalidFormat
         ELSE walked

read_comment(data) ==
    IF Len(data) < 4 \/ Slice(data, 0, 2) # JPEG_SOI THEN InvalidFormat
    ELSE IF ~validate_jpeg_decode(data) THEN InvalidFormat
    ELSE ReadCommentWalk(data, 2)

(* ---------------- write_comment (jpeg.rs 358-446) ---------------- *)

\* mutant of CommentSegment: the size field leaves out its own two bytes
CommentSegmentSizeOfText(comment_bytes) ==
    LET segment_size == Len(comment_bytes) % 65536 IN
    << 255, MARKER_COM >> \o << (segment_size \div 256) % 256, segment_size % 256 >>
      \o comment_bytes

\* lines 375-380
CommentSegment(comment_bytes) ==
    LET segment_size == (Len(comment_bytes) + 2) % 65536 IN
    << 255, MARKER_COM >> \o << (segment_size \div 256) % 256, segment_size % 256 >>
      \o comment_bytes

\* mutant of WriteWalk: the COM segments of the input are copied like the others
RECURSIVE WriteWalkKeepsComments(_, _, _, _, _)
WriteWalkKeepsComments(data, pos0, output, comment_segment, comment_inserted) ==
    IF ~(pos0 < Len(data) - 1)
    THEN [kind |-> "Ok", output |-> output, comment_inserted |-> comment_inserted]
    ELSE IF At(data, pos0) # 255
    THEN [kind |-> "ParseError", output |-> output, comment_inserted |-> comment_inserted]
    ELSE
      LET marker == At(data, pos0 + 1)
          pos == pos0 + 2
          inserts == ~comment_inserted /\ (marker = MARKER_SOS \/ marker = MARKER_DQT)
          out1 == IF inserts THEN output \o comment_segment ELSE output
          ins1 == comment_inserted \/ inserts
      IN IF marker = MARKER_SOS
         THEN [kind |-> "Ok",
               output |-> out1 \o << 255, marker >> \o SliceFrom(data, pos),
               comment_inserted |-> ins1]
         ELSE IF IsStandalone(marker)
         THEN WriteWalkKeepsComments(data, pos, out1 \o << 255, marker >>, comment_segment, ins1)
         ELSE IF pos + 2 > Len(data)
         THEN [kind |-> "ParseError", output |-> out1, comment_inserted |-> ins1]
         ELSE
           LET segment_size == U16be(At(data, pos), At(data, pos + 1))
               segment_end == pos + segment_size
           IN IF segment_size < 2 \/ segment_end > Len(data)
              THEN [kind |-> "ParseError", output |-> out1, comment_inserted |-> ins1]
              ELSE WriteWalkKeepsComments(data, segment_end,
                                          out1 \o << 255, marker >> \o Slice(data, pos, segment_end),
                                          comment_segment, ins1)

\* the walk of lines 386-435
RECURSIVE WriteWalk(_, _, _, _, _)
WriteWalk(data, pos0, output, comment_segment, comment_inserted) ==
    IF ~(pos0 < Len(data) - 1)
    THEN [kind |-> "Ok", output |-> output, comment_inserted |-> comment_inserted]
    ELSE IF At(data, pos0) # 255
    THEN [kind |-> "ParseError", output |-> output, comment_inserted |-> comment_inserted]
    ELSE
      LET marker == At(data, pos0 + 1)
          pos == pos0 + 2
          inserts == ~comment_inserted /\ (marker = MARKER_SOS \/ marker = MARKER_DQT)
          out1 == IF inserts THEN output \o comment_segment ELSE output
          ins1 == comment_inserted \/ inserts
      IN IF marker = MARKER_SOS
         THEN [kind |-> "Ok",
               output |-> out1 \o << 255, marker >> \o SliceFrom(data, pos),
               comment_inserted |-> ins1]
         ELSE IF IsStandalone(marker)
         THEN WriteWalk(data, pos, out1 \o << 255, marker >>, comment_segment, ins1)
         ELSE IF pos + 2 > Len(data)
         THEN [kind |-> "ParseError", output |-> out1, comment_inserted |-> ins1]
         ELSE
           LET segment_size == U16be(At(data, pos), At(data, pos + 1))
               segment_end == pos + segment_size
           IN IF segment_size < 2 \/ segment_end > Len(data)
              THEN [kind |-> "ParseError", output |-> out1, comment_inserted |-> ins1]
              ELSE WriteWalk(data, segment_end,
                             IF marker # MARKER_COM
                             THEN out1 \o << 255, marker >> \o Slice(data, pos, segment_end)
                             ELSE out1,
                             comment_segment, ins1)

\* mutant of write_comment: a text of exactly 65533 bytes is refused as well
write_comment_refuses_65533(data, comment) ==
    IF Len(data) < 4 \/ Slice(data, 0, 2) # JPEG_SOI THEN InvalidFormat
    ELSE IF ~validate_jpeg_decode(data) THEN InvalidFormat
    ELSE IF Len(comment) >= 65533 THEN InvalidFormat
    ELSE LET comment_segment == CommentSegment(comment)
             walk == WriteWalk(data, 2, JPEG_SOI, comment_segment, FALSE)
         IN IF walk.kind # "Ok" THEN ParseError
            ELSE LET output == IF ~walk.comment_inserted
                               THEN walk.output \o comment_segment
                               ELSE walk.output
                 IN IF ~validate_jpeg_decode(output) THEN InvalidFormat
                    ELSE Ok(output)

\* mutant of write_comment: the walk never inserts, the new segment is
\* appended to what the walk built
write_comment_appends(data, comment) ==
    IF Len(data) < 4 \/ Slice(data, 0, 2) # JPEG_SOI THEN InvalidFormat
    ELSE IF ~validate_jpeg_decode(data) THEN InvalidFormat
    ELSE IF Len(comment) > 65533 THEN InvalidFormat
    ELSE LET comment_segment == CommentSegment(comment)
             walk == WriteWalk(data, 2, JPEG_SOI, comment_segment, TRUE)
         IN IF walk.kind # "Ok" THEN ParseError
            ELSE LET output == walk.output \o comment_segment
                 IN IF ~validate_jpeg_decode(output) THEN InvalidFormat
                    ELSE Ok(output)

write_comment(data, comment) ==
    IF Len(data) < 4 \/ Slice(data, 0, 2) # JPEG_SOI THEN InvalidFormat
    ELSE IF ~validate_jpeg_decode(data) THEN InvalidFormat
    ELSE IF Len(comment) > 65533 THEN InvalidFormat
    ELSE LET comment_segment == CommentSegment(comment)
             walk == WriteWalk(data, 2, JPEG_SOI, comment_segment, FALSE)
         IN IF walk.kind # "Ok" THEN ParseError
            ELSE LET output == IF ~walk.comment_inserted
                               THEN walk.output \o comment_segment
                               ELSE walk.output
                 IN IF ~validate_jpeg_decode(output) THEN InvalidFormat
                    ELSE Ok(output)


(* ---------------- CRC-32 (png.rs 232-237) ---------------- *)

\* a u32 is held as its two 16-bit halves << hi, lo >>

\* bitwise exclusive or of two numbers below 2^n
RECURSIVE XorBits(_, _, _)
XorBits(a, b, n) ==
    IF n = 0 THEN 0
    ELSE ((a + b) % 2) + 2 * XorBits(a \div 2, b \div 2, n - 1)

\* exclusive or of two 4-bit numbers, tabulated
XorNibble == [a \in 0..15 |-> [b \in 0..15 |-> XorBits(a, b, 4)]]

Xor8(a, b) == XorNibble[a % 16][b % 16] + 16 * XorNibble[a \div 16][b \div 16]

Xor16(a, b) == Xor8(a % 256, b % 256) + 256 * Xor8(a \div 256, b \div 256)

Xor32(x, y) == << Xor16(x[1], y[1]), Xor16(x[2], y[2]) >>

\* the reflected polynomial EDB88320
CrcPoly == << 60856, 33568 >>

\* one bit of the bitwise CRC
CrcShift(x) ==
    LET shifted == << x[1] \div 2, (x[2] \div 2) + (x[1] % 2) * 32768 >> IN
    IF x[2] % 2 = 1 THEN Xor32(shifted, CrcPoly) ELSE shifted

\* the table entry of byte n: eight bit steps
CrcTableEntry(n) ==
    CrcShift(CrcShift(CrcShift(CrcShift(CrcShift(CrcShift(CrcShift(CrcShift(<< 0, n >>))))))))

CrcTable == [n \in 0..255 |-> CrcTableEntry(n)]

\* crc = table[(crc ^ b) & 0xFF] ^ (crc >> 8)
CrcByte(x, b) ==
    Xor32(CrcTable[Xor8(x[2] % 256, b)],
          << x[1] \div 256, (x[2] \div 256) + (x[1] % 256) * 256 >>)

\* Hasher::update over bytes[lo..hi] (1-based, inclusive), the range halved at
\* each step; the test on the first half has it evaluated before the second
RECURSIVE CrcRange(_, _, _, _)
CrcRange(x, bytes, lo, hi) ==
    IF lo > hi THEN x
    ELSE IF lo = hi THEN CrcByte(x, bytes[lo])
    ELSE LET mid == (lo + hi) \div 2
             y == CrcRange(x, bytes, lo, mid)
         IN IF y[1] >= 0 THEN CrcRange(y, bytes, mid + 1, hi) ELSE y

\* Hasher::update: the bytes from the k-th on are fed in order
CrcUpdate(x, bytes, k) == CrcRange(x, bytes, k, Len(bytes))

\* Hasher::new, update(chunk_type), update(data), finalize
calculate_crc(chunk_type, data) ==
    Xor32(CrcUpdate(CrcUpdate(<< 65535, 65535 >>, chunk_type, 1), data, 1), << 65535, 65535 >>)

\* u32::to_be_bytes
ToBeBytes(x) == << x[1] \div 256, x[1] % 256, x[2] \div 256, x[2] % 256 >>

(* ---------------- PNG constants (png.rs) ---------------- *)

PNG_SIGNATURE == << 137, 80, 78, 71, 13, 10, 26, 10 >>

IHDR == << 73, 72, 68, 82 >>

PLTE == << 80, 76, 84, 69 >>

IDAT == << 73, 68, 65, 84 >>

IEND == << 73, 69, 78, 68 >>

tRNS == << 116, 82, 78, 83 >>

gAMA == << 103, 65, 77, 65 >>

cHRM == << 99, 72, 82, 77 >>

sRGB == << 115, 82, 71, 66 >>

iCCP == << 105, 67, 67, 80 >>

sBIT == << 115, 66, 73, 84 >>

pHYs == << 112, 72, 89, 115 >>

tEXt == << 116, 69, 88, 116 >>

zTXt == << 122, 84, 88, 116 >>

iTXt == << 105, 84, 88, 116 >>

bKGD == << 98, 75, 71, 68 >>

\* mutant of CRITICAL_CHUNKS: the background colour chunk is on the list too
CriticalChunksWithBkgd ==
    { IHDR, PLTE, IDAT, IEND, tRNS, gAMA, cHRM, sRGB, iCCP, sBIT, pHYs, bKGD }

CRITICAL_CHUNKS == { IHDR, PLTE, IDAT, IEND, tRNS, gAMA, cHRM, sRGB, iCCP, sBIT, pHYs }

(* ---------------- the external PNG validator ---------------- *)

\* the chunk at pos lies inside the buffer and carries the CRC of its type and data
ChunkIntact(data, pos) ==
    /\ pos + 8 <= Len(data)
    /\ LET length == U32be(At(data, pos), At(data, pos + 1), At(data, pos + 2), At(data, pos + 3)) IN
         /\ pos + 12 + length <= Len(data)
         /\ ToBeBytes(calculate_crc(Slice(data, pos + 4, pos + 8),
                                    Slice(data, pos + 8, pos + 8 + length)))
              = Slice(data, pos + 8 + length, pos + 12 + length)

\* Decoder::read_info reads the chunks up to the first IDAT header
RECURSIVE ReadInfoPng(_, _)
ReadInfoPng(data, pos) ==
    IF pos + 8 > Len(data) THEN FALSE
    ELSE LET length == U32be(At(data, pos), At(data, pos + 1), At(data, pos + 2), At(data, pos + 3))
             chunk_type == Slice(data, pos + 4, pos + 8)
         IN IF chunk_type = IDAT THEN TRUE
            ELSE IF chunk_type = IEND \/ chunk_type = IHDR THEN FALSE
            ELSE ChunkIntact(data, pos) /\ ReadInfoPng(data, pos + 12 + length)

\* the header chunk must come first; png.rs 251-279 check its fields
validate_png_decode(data) ==
    /\ Len(data) >= 8 + 25
    /\ Slice(data, 0, 8) = PNG_SIGNATURE
    /\ Slice(data, 8, 16) = << 0, 0, 0, 13 >> \o IHDR
    /\ ChunkIntact(data, 8)
    /\ U32be(At(data, 16), At(data, 17), At(data, 18), At(data, 19)) # 0
    /\ U32be(At(data, 20), At(data, 21), At(data, 22), At(data, 23)) # 0
    /\ At(data, 24) \in {1, 2, 4, 8, 16}
    /\ At(data, 25) \in {0, 2, 3, 4, 6}
    /\ ReadInfoPng(data, 33)

(* ---------------- clean_chunks (png.rs 23-80) ---------------- *)

\* std::str::from_utf8 succeeds
IsUtf8(v) == from_utf8_lossy(v) = v

\* mutant of CleanChunksWalk: once a chunk has been dropped (the output is
\* shorter than the input read so far) every later chunk is copied
RECURSIVE CleanChunksWalkDropsOne(_, _, _)
CleanChunksWalkDropsOne(data, pos, output) ==
    IF ~(pos < Len(data)) THEN [kind |-> "Ok", output |-> output]
    ELSE IF pos + 4 > Len(data) THEN [kind |-> "ParseError", output |-> output]
    ELSE IF pos + 8 > Len(data) THEN [kind |-> "ParseError", output |-> output]
    ELSE LET length == U32be(At(data, pos), At(data, pos + 1), At(data, pos + 2), At(data, pos + 3))
             chunk_type == Slice(data, pos + 4, pos + 8)
             chunk_size == 12 + length
         IN IF ~IsUtf8(chunk_type) THEN [kind |-> "ParseError", output |-> output]
            ELSE IF pos + chunk_size > Len(data) THEN [kind |-> "ParseError", output |-> output]
            ELSE LET out1 == IF chunk_type \in CRITICAL_CHUNKS \/ Len(output) < pos
                             THEN output \o Slice(data, pos, pos + chunk_size)
                             ELSE output
                 IN IF chunk_type = IEND THEN [kind |-> "Ok", output |-> out1]
                    ELSE CleanChunksWalkDropsOne(data, pos + chunk_size, out1)

RECURSIVE CleanChunksWalk(_, _, _)
CleanChunksWalk(data, pos, output) ==
    IF ~(pos < Len(data)) THEN [kind |-> "Ok", output |-> output]
    ELSE IF pos + 4 > Len(data) THEN [kind |-> "ParseError", output |-> output]
    ELSE IF pos + 8 > Len(data) THEN [kind |-> "ParseError", output |-> output]
    ELSE LET length == U32be(At(data, pos), At(data, pos + 1), At(data, pos + 2), At(data, pos + 3))
             chunk_type == Slice(data, pos + 4, pos + 8)
             chunk_size == 12 + length
         IN IF ~IsUtf8(chunk_type) THEN [kind |-> "ParseError", output |-> output]
            ELSE IF pos + chunk_size > Len(data) THEN [kind |-> "ParseError", output |-> output]
            ELSE LET out1 == IF chunk_type \in CRITICAL_CHUNKS
                             THEN output \o Slice(data, pos, pos + chunk_size)
                             ELSE output
                 IN IF chunk_type = IEND THEN [kind |-> "Ok", output |-> out1]
                    ELSE CleanChunksWalk(data, pos + chunk_size, out1)

clean_chunks(data) ==
    IF Len(data) < 8 \/ Slice(data, 0, 8) # PNG_SIGNATURE THEN InvalidFormat
    ELSE IF ~validate_png_decode(data) THEN InvalidFormat
    ELSE LET walk == CleanChunksWalk(data, 8, Slice(data, 0, 8)) IN
         IF walk.kind # "Ok" THEN ParseError
         ELSE IF ~validate_png_decode(walk.output) THEN InvalidFormat
              ELSE Ok(walk.output)

(* ---------------- read_text_chunks (png.rs 83-143) ---------------- *)

TextChunk(keyword, text) == [keyword |-> keyword, text |-> text]

\* chunk_data.iter().position(|&b| b == 0), 0-based, None when there is none
Position0(chunk_data, k) ==
    IF \A j \in k..(Len(chunk_data) - 1) : At(chunk_data, j) # 0 THEN None
    ELSE CHOOSE j \in k..(Len(chunk_data) - 1) :
             /\ At(chunk_data, j) = 0
             /\ \A i \in k..(j - 1) : At(chunk_data, i) # 0

\* mutant of TextEntries: the text ends at its first null byte
TextEntriesTextToNull(chunk_type, length, chunk_data) ==
    IF chunk_type = tEXt /\ length > 0
    THEN LET null_pos == Position0(chunk_data, 0) IN
         IF null_pos # None
         THEN LET rest == SliceFrom(chunk_data, null_pos + 1)
                  cut == Position0(rest, 0)
              IN << TextChunk(from_utf8_lossy(Slice(chunk_data, 0, null_pos)),
                              from_utf8_lossy(IF cut = None THEN rest ELSE Slice(rest, 0, cut))) >>
         ELSE << >>
    ELSE << >>

\* lines 118-132: the entries one chunk adds to text_chunks
TextEntries(chunk_type, length, chunk_data) ==
    IF chunk_type = tEXt /\ length > 0
    THEN LET null_pos == Position0(chunk_data, 0) IN
         IF null_pos # None
         THEN << TextChunk(from_utf8_lossy(Slice(chunk_data, 0, null_pos)),
                           IF null_pos + 1 < Len(chunk_data)
                           THEN from_utf8_lossy(SliceFrom(chunk_data, null_pos + 1))
                           ELSE << >>) >>
         ELSE << >>
    ELSE << >>

\* mutant of ReadTextWalk: the walk goes on after IEND
RECURSIVE ReadTextWalkPastIend(_, _, _)
ReadTextWalkPastIend(data, pos, text_chunks) ==
    IF ~(pos < Len(data)) THEN text_chunks
    ELSE IF pos + 4 > Len(data) THEN text_chunks
    ELSE IF pos + 8 > Len(data) THEN text_chunks
    ELSE LET length == U32be(At(data, pos), At(data, pos + 1), At(data, pos + 2), At(data, pos + 3))
             chunk_type == Slice(data, pos + 4, pos + 8)
             chunk_size == 12 + length
         IN IF pos + chunk_size > Len(data) THEN text_chunks
            ELSE ReadTextWalkPastIend(data, pos + chunk_size,
                                      text_chunks
                                        \o TextEntries(chunk_type, length,
                                                       Slice(data, pos + 8, pos + 8 + length)))

RECURSIVE ReadTextWalk(_, _, _)
ReadTextWalk(data, pos, text_chunks) ==
    IF ~(pos < Len(data)) THEN text_chunks
    ELSE IF pos + 4 > Len(data) THEN text_chunks
    ELSE IF pos + 8 > Len(data) THEN text_chunks
    ELSE LET length == U32be(At(data, pos), At(data, pos + 1), At(data, pos + 2), At(data, pos + 3))
             chunk_type == Slice(data, pos + 4, pos + 8)
             chunk_size == 12 + length
         IN IF pos + chunk_size > Len(data) THEN text_chunks
            ELSE LET found == text_chunks
                                \o TextEntries(chunk_type, length,
                                               Slice(data, pos + 8, pos + 8 + length))
                 IN IF chunk_type = IEND THEN found
                    ELSE ReadTextWalk(data, pos + chunk_size, found)

read_text_chunks(data) ==
    IF Len(data) < 8 \/ Slice(data, 0, 8) # PNG_SIGNATURE THEN InvalidFormat
    ELSE IF ~validate_png_decode(data) THEN InvalidFormat
    ELSE Ok(ReadTextWalk(data, 8, << >>))

(* ---------------- add_text_chunk (png.rs 146-229) ---------------- *)

\* mutant of IsKeywordByte: every ASCII byte passes
IsKeywordByteAnyAscii(b) == b < 128

\* c.is_ascii() && (c.is_alphanumeric() || c == ' ') on the bytes of the keyword
IsKeywordByte(b) == b = 32 \/ b \in 48..57 \/ b \in 65..90 \/ b \in 97..122

\* lines 179-199: the position of the first IEND header, None when the walk ends first
RECURSIVE FindIend(_, _)
FindIend(data, pos) ==
    IF ~(pos < Len(data)) THEN None
    ELSE IF pos + 8 > Len(data) THEN None
    ELSE LET length == U32be(At(data, pos), At(data, pos + 1), At(data, pos + 2), At(data, pos + 3))
             chunk_type == Slice(data, pos + 4, pos + 8)
             chunk_size == 12 + length
         IN IF chunk_type = IEND THEN pos
            ELSE IF pos + chunk_size > Len(data) THEN None
            ELSE FindIend(data, pos + chunk_size)

\* mutant of NewTextChunk: no null byte between keyword and text
NewTextChunkNoSeparator(keyword, text) ==
    LET chunk_data == keyword \o text IN
    Be32Bytes(Len(chunk_data)) \o tEXt \o chunk_data
      \o ToBeBytes(calculate_crc(tEXt, chunk_data))

\* lines 207-220: length, type, data and CRC of the new chunk
NewTextChunk(keyword, text) ==
    LET chunk_data == keyword \o << 0 >> \o text IN
    Be32Bytes(Len(chunk_data)) \o tEXt \o chunk_data
      \o ToBeBytes(calculate_crc(tEXt, chunk_data))

add_text_chunk(data, keyword, text) ==
    IF Len(data) < 8 \/ Slice(data, 0, 8) # PNG_SIGNATURE THEN InvalidFormat
    ELSE IF ~validate_png_decode(data) THEN InvalidFormat
    ELSE IF Len(keyword) = 0 \/ Len(keyword) > 79 THEN InvalidFormat
    ELSE IF ~(\A k \in 1..Len(keyword) : IsKeywordByte(keyword[k])) THEN InvalidFormat
    ELSE LET iend_pos == FindIend(data, 8) IN
         IF iend_pos = None THEN ParseError
         ELSE LET output == Slice(data, 0, 8) \o Slice(data, 8, iend_pos)
                              \o NewTextChunk(keyword, text)
                              \o SliceFrom(data, iend_pos)
              IN IF ~validate_png_decode(output) THEN InvalidFormat
                 ELSE Ok(output)


(* ---------------- the buffers the exploration starts from ---------------- *)

\* a sized JPEG segment: marker, 2-byte big-endian size, payload
Seg(marker, payload) == << 255, marker >> \o Be16Bytes(Len(payload) + 2) \o payload

App0Jfif == Seg(MARKER_APP0, << 74, 70, 73, 70, 0, 1, 1 >>)

\* little-endian TIFF, IFD0 with the single entry Orientation = o
ExifLe(o) ==
    Seg(MARKER_APP1,
        ExifPrefix \o << 0, 0 >> \o << 73, 73, 42, 0, 8, 0, 0, 0 >> \o << 1, 0 >>
          \o << 18, 1, 3, 0, 1, 0, 0, 0, o, 0, 0, 0 >> \o << 0, 0, 0, 0 >>)

\* as ExifLe, the IFD ending right after its entry (no next-IFD offset)
ExifLeShort(o) ==
    Seg(MARKER_APP1,
        ExifPrefix \o << 0, 0 >> \o << 73, 73, 42, 0, 8, 0, 0, 0 >> \o << 1, 0 >>
          \o << 18, 1, 3, 0, 1, 0, 0, 0, o, 0, 0, 0 >>)

\* big-endian TIFF, IFD0 with Make and then Orientation = o
ExifBe(o) ==
    Seg(MARKER_APP1,
        ExifPrefix \o << 0, 0 >> \o << 77, 77, 0, 42, 0, 0, 0, 8 >> \o << 0, 2 >>
          \o << 1, 15, 0, 2, 0, 0, 0, 1, 65, 0, 0, 0 >>
          \o << 1, 18, 0, 3, 0, 0, 0, 1, 0, o, 0, 0 >> \o << 0, 0, 0, 0 >>)

\* Exif prefix, IFD0 without an Orientation entry
ExifNoOrientation ==
    Seg(MARKER_APP1,
        ExifPrefix \o << 0, 0 >> \o << 73, 73, 42, 0, 8, 0, 0, 0 >> \o << 1, 0 >>
          \o << 15, 1, 2, 0, 1, 0, 0, 0, 65, 0, 0, 0 >> \o << 0, 0, 0, 0 >>)

\* an APP1 segment of size 8: the Exif identifier and nothing after it
ExifTiny == Seg(MARKER_APP1, ExifPrefix \o << 0, 0 >>)

\* an APP1 segment with another prefix ("http:")
Xmp == Seg(MARKER_APP1, << 104, 116, 116, 112, 58, 47, 47, 110, 115 >>)

IccPlain == Seg(MARKER_APP2, IccPrefix \o << 1, 1, 9 >>)

\* an ICC profile whose bytes hold FF E0 00 02 followed by one more byte
IccWithE0 == Seg(MARKER_APP2, IccPrefix \o << 1, 1, 255, 224, 0, 2, 7 >>)

\* an ICC profile whose bytes hold FF E0 followed by a large 16-bit value
IccWithE0Far == Seg(MARKER_APP2, IccPrefix \o << 1, 1, 255, 224, 255, 255 >>)

App13 == Seg(237, << 80, 83 >>)

ComHi == Seg(MARKER_COM, << 104, 105 >>)

ComEmpty == Seg(MARKER_COM, << >>)

Dqt == Seg(MARKER_DQT, << 0, 1, 2 >>)

\* baseline frame header, 8 bit, height 1, width 1, one component
Sof0 == Seg(192, << 8, 0, 1, 0, 1, 1, 1, 17, 0 >>)

\* SOS with its header, two bytes of entropy-coded data and EOI
SosTail == << 255, MARKER_SOS, 0, 2, 55, 56, 255, 217 >>

\* as SosTail, with the bytes FF E0 00 02 after the scan
SosTailWithE0 == << 255, MARKER_SOS, 0, 2, 55, 255, 217, 255, 224, 0, 2, 9 >>

\* an SOS header directly followed by a COM segment and EOI
SosThenCom == << 255, MARKER_SOS, 0, 2 >> \o ComHi \o << 255, 217 >>

HeaderMenu ==
    { App0Jfif, ExifLe(6), ExifBe(3), ExifNoOrientation, Xmp, IccWithE0, ComHi, Dqt }

\* what follows the frame header
JpegTails ==
    { SosTail,
      SosTailWithE0,
      Dqt \o << 255, 208 >> \o ComHi \o SosTail,
      ComEmpty \o ComHi \o Dqt \o SosTail,
      << 0, 0 >>,
      << 255, 219, 0, 9, 1 >>,
      ComHi \o << 7 >>,
      << >>,
      SosThenCom,
      ComHi \o << 0, 0 >>,
      << 255, 254, 0, 1 >>,
      << 255, 219, 0 >>,
      << 255, 217, 255, 216 >> \o ComHi \o SosTail }

JpegInputs ==
    { JPEG_SOI \o Concat(h) \o Sof0 \o SosTail : h \in SeqsUpTo(HeaderMenu, MaxSegs) }
      \cup { JPEG_SOI \o Concat(h) \o Sof0 \o SosTail :
               h \in { << e >> : e \in { ExifLe(o) : o \in 0..9 } \cup { ExifBe(o) : o \in 0..9 } }
                     \cup { << App0Jfif, ExifLe(o) >> : o \in {1, 8} }
                     \cup { << ExifTiny, ExifLe(6) >>, << ExifTiny, ExifBe(3) >> } }
      \cup { JPEG_SOI \o Concat(h) \o Sof0 \o t :
               h \in { << >>, << ExifLe(6) >>, << App0Jfif, ComHi >>, << IccWithE0Far, ExifLe(2) >>,
                       << IccPlain, App13 >>, << ExifLeShort(6) >> },
               t \in JpegTails }

\* buffers no operation accepts
GarbageInputs == { << >>, << 0, 1, 2, 3 >>, << 255, 216, 255 >>, << 255, 216, 255, 217 >> }

\* a PNG chunk: length, type, data and the CRC of type and data
MkChunk(chunk_type, chunk_data) ==
    Be32Bytes(Len(chunk_data)) \o chunk_type \o chunk_data
      \o ToBeBytes(calculate_crc(chunk_type, chunk_data))

\* 1 x 1 pixels, bit depth 8, colour type 2
IhdrChunk == MkChunk(IHDR, << 0, 0, 0, 1, 0, 0, 0, 1, 8, 2, 0, 0, 0 >>)

IdatChunk == MkChunk(IDAT, << 120, 156, 98, 0 >>)

IendChunk == MkChunk(IEND, << >>)

\* keyword "K", text "v"
TextKV == MkChunk(tEXt, << 75, 0, 118 >>)

\* no null byte in the data
TextNoNull == MkChunk(tEXt, << 97, 98 >>)

TextEmpty == MkChunk(tEXt, << >>)

\* keyword "K", text "a", null, "b"
TextNullInText == MkChunk(tEXt, << 75, 0, 97, 0, 98 >>)

\* keyword "L" followed by the null byte only
TextKeyOnly == MkChunk(tEXt, << 76, 0 >>)

\* keyword "K", text that is not UTF-8
TextBadUtf8 == MkChunk(tEXt, << 75, 0, 255 >>)

\* zlib stream with one stored block holding "hi"
ZlibHi == << 120, 1 >> \o << 1, 2, 0, 253, 255 >> \o << 104, 105 >> \o << 1, 59, 0, 210 >>

\* keyword "C", compression method 0, compressed text "hi"
ZtxtChunk == MkChunk(zTXt, << 67, 0, 0 >> \o ZlibHi)

\* keyword "T", not compressed, empty language tag and translated keyword, text "e-acute"
ItxtChunk == MkChunk(iTXt, << 84, 0, 0, 0, 0, 0 >> \o << 195, 169 >>)

\* keyword "D", compressed, text "hi"
ItxtCompressedChunk == MkChunk(iTXt, << 68, 0, 1, 0, 0, 0 >> \o ZlibHi)

GamaChunk == MkChunk(gAMA, << 0, 0, 177, 143 >>)

BkgdChunk == MkChunk(bKGD, << 0, 0, 0, 0, 0, 0 >>)

ChunkMenu ==
    { TextKV, TextNoNull, TextNullInText, TextKeyOnly, TextBadUtf8, GamaChunk }

\* what follows the chunks after IDAT
PngTails ==
    { IendChunk,
      IendChunk \o TextKV,
      << >>,
      << 0, 0 >>,
      << 0, 0, 0, 99 >> \o tEXt \o << 75, 0 >>,
      << 255, 255, 255, 255 >> \o tEXt \o << 75, 0 >>,
      << 0, 0, 0, 0 >> \o IEND,
      << 0, 0, 0, 0, 255, 254, 253, 252, 1, 2, 3, 4 >> \o IendChunk,
      << 0, 0, 0, 99 >> \o IEND }

PngInputs ==
    { PNG_SIGNATURE \o IhdrChunk \o IdatChunk \o Concat(c) \o IendChunk :
        c \in SeqsUpTo(ChunkMenu, MaxSegs) }
      \cup { PNG_SIGNATURE \o IhdrChunk \o Concat(c) \o IdatChunk \o IendChunk :
               c \in { << TextKV >>, << TextNoNull, GamaChunk >>, << BkgdChunk >> } }
      \cup { PNG_SIGNATURE \o IhdrChunk \o IdatChunk \o Concat(c) \o IendChunk :
               c \in { << ZtxtChunk >>, << ItxtChunk >>, << ItxtCompressedChunk >>,
                       << TextEmpty >>, << TextEmpty, TextKV >>, << BkgdChunk, GamaChunk >> } }
      \cup { PNG_SIGNATURE \o IhdrChunk \o IdatChunk \o Concat(c) \o t :
               c \in { << >>, << TextKV >>, << TextNoNull, TextKV >> },
               t \in PngTails }

\* buffers no PNG operation accepts: short, wrong signature, no IDAT, zero width
PngGarbageInputs ==
    { << >>, << 0, 1, 2, 3 >>, PNG_SIGNATURE, PNG_SIGNATURE \o IhdrChunk \o IendChunk,
      PNG_SIGNATURE \o MkChunk(IHDR, << 0, 0, 0, 0, 0, 0, 0, 1, 8, 2, 0, 0, 0 >>)
        \o IdatChunk \o IendChunk }

(* ---------------- the state machine ---------------- *)

VARIABLES
    data,        \* the buffer the caller holds
    op,          \* the last operation called
    args,        \* its arguments besides the buffer
    input,       \* the buffer it was called on
    result,      \* what it returned
    revalidated, \* the call passed its output to the validator before returning
    calls,       \* number of calls made so far
    loop         \* a loop followed iteration by iteration: its position, the
                 \* position before the last iteration, the iterations run and
                 \* the inserted flag of the splice scan

vars == << data, op, args, input, result, revalidated, calls, loop >>

\* no loop is being followed
NoWalk == [pos |-> 0, from |-> 0, steps |-> 0, inserted |-> FALSE]

\* texts passed to write_comment: empty, ASCII, and two-byte UTF-8 characters
Comments == { << >>, << 65 >>, << 195, 169, 33 >> }

\* a keyword of n letters "a"
KeywordOfLen(n) == [k \in 1..n |-> 97]

\* keyword and text passed to add_text_chunk: keyword "K" with an ASCII text,
\* an empty text and a text with an embedded null byte; a keyword that is not
\* ASCII; the empty keyword, "a-b", "a 1", and keywords of 79 and 80 bytes
TextArgs ==
    { << << 75 >>, << 118 >> >>,
      << << 75 >>, << >> >>,
      << << 75 >>, << 97, 0, 98 >> >>,
      << << 195, 169 >>, << 118 >> >>,
      << << >>, << 118 >> >>,
      << << 97, 45, 98 >>, << 118 >> >>,
      << << 97, 32, 49 >>, << 118 >> >>,
      << KeywordOfLen(79), << 118 >> >>,
      << KeywordOfLen(80), << 118 >> >> }

\* a text of n letters "A"
CommentOfLen(n) == [k \in 1..n |-> 65]

\* texts at the limit of the COM size field: the longest accepted one, the
\* shortest refused one, and a short one
LongComments == { CommentOfLen(65533), CommentOfLen(65534), << 66 >> }

\* well-formed streams the long texts are written into
LimitInputs ==
    { JPEG_SOI \o Concat(h) \o Sof0 \o t :
        h \in { << >>, << App0Jfif >>, << ComHi >>, << Dqt, ComEmpty >> },
        t \in { SosTail, SosThenCom, << >> } }

\* buffers of either format, most of them too short or without a signature: a
\* cut signature, the signature alone, the other format's stream, a stream
\* from its third byte on
AnyInputs ==
    GarbageInputs \cup PngGarbageInputs
      \cup { << 255 >>, << 255, 216 >>, << 216, 255, 224, 0 >>, << 255, 217, 255, 216 >>,
              SubSeq(PNG_SIGNATURE, 1, 7), SubSeq(PNG_SIGNATURE, 2, 8) \o IhdrChunk,
              << 137, 80, 78, 71, 13, 10, 26, 11 >> \o IhdrChunk \o IdatChunk \o IendChunk,
              SliceFrom(JPEG_SOI \o App0Jfif \o Sof0 \o SosTail, 2),
              JPEG_SOI \o ComHi \o Sof0 \o SosTail,
              PNG_SIGNATURE \o IhdrChunk \o IdatChunk \o TextKV \o IendChunk }

\* no call made yet
Fresh ==
    /\ op = "none"
    /\ args = << >>
    /\ input = << >>
    /\ result = [kind |-> "None", value |-> << >>]
    /\ revalidated = FALSE
    /\ calls = 0
    /\ loop = NoWalk

Init ==
    /\ data \in JpegInputs \cup GarbageInputs
    /\ Fresh

InitPng ==
    /\ data \in PngInputs \cup PngGarbageInputs
    /\ Fresh

InitLimit ==
    /\ data \in LimitInputs
    /\ Fresh

InitAny ==
    /\ data \in AnyInputs
    /\ Fresh

\* a call returns r; the caller keeps the new buffer when it got one
Return(name, a, r, checked, mutates) ==
    /\ calls < MaxCalls
    /\ op' = name
    /\ args' = a
    /\ input' = data
    /\ result' = r
    /\ revalidated' = checked
    /\ data' = IF mutates /\ r.kind = "Ok" THEN r.value ELSE data
    /\ calls' = calls + 1
    /\ loop' = loop

\* the walk of clean_metadata ended normally and no orientation is to be spliced
CleanReachesValidation(d) ==
    /\ Len(d) >= 4 /\ Slice(d, 0, 2) = JPEG_SOI /\ validate_jpeg_decode(d)
    /\ LET walk == CleanWalk(d, 2, JPEG_SOI, FALSE, None) IN
         walk.kind = "Ok" /\ CleanRevalidates(walk)

CleanMetadata ==
    Return("clean_metadata", << >>, clean_metadata(data), CleanReachesValidation(data), TRUE)

ReadComment ==
    Return("read_comment", << >>, read_comment(data), FALSE, FALSE)

WriteComment ==
    \E c \in Comments :
        LET r == write_comment(data, c) IN
        Return("write_comment", << c >>, r, r.kind = "Ok", TRUE)

WriteLongComment ==
    \E c \in LongComments :
        LET r == write_comment(data, c) IN
        Return("write_comment", << c >>, r, r.kind = "Ok", TRUE)

CleanChunks ==
    LET r == clean_chunks(data) IN
    Return("clean_chunks", << >>, r, r.kind = "Ok", TRUE)

ReadTextChunks ==
    Return("read_text_chunks", << >>, read_text_chunks(data), FALSE, FALSE)

AddTextChunk ==
    \E a \in TextArgs :
        LET r == add_text_chunk(data, a[1], a[2]) IN
        Return("add_text_chunk", a, r, r.kind = "Ok", TRUE)

\* the JPEG operations
Next ==
    \/ CleanMetadata
    \/ ReadComment
    \/ WriteComment

\* the PNG operations
NextPng ==
    \/ CleanChunks
    \/ ReadTextChunks
    \/ AddTextChunk

\* the JPEG operations, write_comment with the texts at the size limit
NextLimit ==
    \/ CleanMetadata
    \/ ReadComment
    \/ WriteLongComment

\* the six operations, each on whatever buffer the caller holds
NextAny ==
    \/ CleanMetadata
    \/ ReadComment
    \/ WriteComment
    \/ CleanChunks
    \/ ReadTextChunks
    \/ AddTextChunk

(* ---------------- the loops, one iteration at a time ---------------- *)

\* the position of a loop that has ended (break, return or condition false)
LoopEnds == -1

JpegLoops == { "clean_metadata", "read_comment", "write_comment" }

PngLoops == { "clean_chunks", "read_text_chunks", "add_text_chunk" }

\* the while condition of the loop of name at position pos
LoopCondition(name, d, pos) ==
    IF name \in PngLoops THEN pos < Len(d) ELSE pos < Len(d) - 1

\* mutant of JpegWalkStep: a standalone marker is passed over before the
\* position has moved
JpegWalkStepStandaloneStays(name, d, pos0) ==
    IF ~LoopCondition(name, d, pos0) THEN LoopEnds
    ELSE IF At(d, pos0) # 255 THEN LoopEnds
    ELSE
      LET marker == At(d, pos0 + 1)
          pos == pos0 + 2
      IN IF marker = MARKER_SOS THEN LoopEnds
         ELSE IF IsStandalone(marker) THEN pos0
         ELSE IF pos + 2 > Len(d) THEN LoopEnds
         ELSE
           LET segment_size == U16be(At(d, pos), At(d, pos + 1))
               segment_end == pos + segment_size
           IN IF segment_size < 2 \/ segment_end > Len(d) THEN LoopEnds
              ELSE IF name = "read_comment" /\ marker = MARKER_COM THEN LoopEnds
              ELSE segment_end

\* one iteration of the marker walks of jpeg.rs 38-108, 204-250 and 386-435:
\* the position the next iteration starts at, LoopEnds when the loop is left
JpegWalkStep(name, d, pos0) ==
    IF ~LoopCondition(name, d, pos0) THEN LoopEnds
    ELSE IF At(d, pos0) # 255 THEN LoopEnds
    ELSE
      LET marker == At(d, pos0 + 1)
          pos == pos0 + 2
      IN IF marker = MARKER_SOS THEN LoopEnds
         ELSE IF IsStandalone(marker) THEN pos
         ELSE IF pos + 2 > Len(d) THEN LoopEnds
         ELSE
           LET segment_size == U16be(At(d, pos), At(d, pos + 1))
               segment_end == pos + segment_size
           IN IF segment_size < 2 \/ segment_end > Len(d) THEN LoopEnds
              ELSE IF name = "read_comment" /\ marker = MARKER_COM THEN LoopEnds
              ELSE segment_end

\* one iteration of the chunk walks of png.rs 40-74, 95-140 and 179-199
PngWalkStep(name, d, pos) ==
    IF ~LoopCondition(name, d, pos) THEN LoopEnds
    ELSE IF pos + 8 > Len(d) THEN LoopEnds
    ELSE LET length == U32be(At(d, pos), At(d, pos + 1), At(d, pos + 2), At(d, pos + 3))
             chunk_type == Slice(d, pos + 4, pos + 8)
             chunk_size == 12 + length
         IN IF name = "add_text_chunk" /\ chunk_type = IEND THEN LoopEnds
            ELSE IF name = "clean_chunks" /\ ~IsUtf8(chunk_type) THEN LoopEnds
            ELSE IF pos + chunk_size > Len(d) THEN LoopEnds
            ELSE IF chunk_type = IEND THEN LoopEnds
            ELSE pos + chunk_size

\* one iteration of the splice scan of jpeg.rs 119-132; an index out of range
\* ends the loop with the panic
SpliceStep(output, i, inserted) ==
    IF ~LoopCondition("splice_scan", output, i) THEN [pos |-> LoopEnds, inserted |-> inserted]
    ELSE IF At(output, i) = 255 /\ At(output, i + 1) = MARKER_APP0 /\ ~inserted
    THEN IF i + 3 >= Len(output) THEN [pos |-> LoopEnds, inserted |-> inserted]
         ELSE LET marker_size == U16be(At(output, i + 2), At(output, i + 3))
                  marker_end == i + 2 + marker_size
              IN IF marker_end > Len(output) THEN [pos |-> LoopEnds, inserted |-> inserted]
                 ELSE [pos |-> marker_end, inserted |-> TRUE]
    ELSE [pos |-> i + 1, inserted |-> inserted]

\* the buffers a loop runs on: the inputs that pass the checks made before it,
\* and for the splice scan the streams rebuilt with an orientation in 1..8
LoopBuffers(name) ==
    IF name \in JpegLoops
    THEN { d \in JpegInputs : validate_jpeg_decode(d) }
    ELSE IF name \in PngLoops
    THEN { d \in PngInputs : validate_png_decode(d) }
    ELSE { CleanWalk(d, 2, JPEG_SOI, FALSE, None).output :
             d \in { e \in JpegInputs :
                       /\ validate_jpeg_decode(e)
                       /\ CleanWalk(e, 2, JPEG_SOI, FALSE, None).kind = "Ok"
                       /\ CleanWalk(e, 2, JPEG_SOI, FALSE, None).orientation \in 1..8 } }

\* where a loop starts: after SOI, after the signature, at the first byte
LoopStart(name) ==
    IF name \in JpegLoops THEN 2 ELSE IF name \in PngLoops THEN 8 ELSE 0

InitWalk ==
    /\ op \in JpegLoops \cup PngLoops \cup { "splice_scan" }
    /\ data \in LoopBuffers(op)
    /\ loop = [pos |-> LoopStart(op), from |-> LoopStart(op), steps |-> 0, inserted |-> FALSE]
    /\ args = << >>
    /\ input = << >>
    /\ result = [kind |-> "None", value |-> << >>]
    /\ revalidated = FALSE
    /\ calls = 0

\* the loop runs its next iteration, or is left
Iterate(next, inserted) ==
    /\ loop.pos # LoopEnds
    /\ loop.steps <= Len(data)
    /\ loop' = [pos |-> next, from |-> loop.pos,
                steps |-> IF LoopCondition(op, data, loop.pos) THEN loop.steps + 1 ELSE loop.steps,
                inserted |-> inserted]
    /\ UNCHANGED << data, op, args, input, result, revalidated, calls >>

JpegIteration ==
    /\ op \in JpegLoops
    /\ Iterate(JpegWalkStep(op, data, loop.pos), FALSE)

PngIteration ==
    /\ op \in PngLoops
    /\ Iterate(PngWalkStep(op, data, loop.pos), FALSE)

SpliceIteration ==
    /\ op = "splice_scan"
    /\ LET step == SpliceStep(data, loop.pos, loop.inserted) IN
         Iterate(step.pos, step.inserted)

NextWalk ==
    \/ JpegIteration
    \/ PngIteration
    \/ SpliceIteration

(* ---------------- the EXIF codec on its own ---------------- *)

\* an IFD entry in little-endian order: tag, type, count 1, inline value bytes
EntryLe(tag, type, v0, v1) ==
    << tag % 256, tag \div 256, type, 0, 1, 0, 0, 0, v0, v1, 0, 0 >>

TiffHeaderLe == << 73, 73, 42, 0, 8, 0, 0, 0 >>

\* the TIFF part of ExifLe(6)
TiffLe1 == SliceFrom(ExifLe(6), 10)

\* Make, then Orientation = 6
TiffLe2 ==
    TiffHeaderLe \o << 2, 0 >> \o EntryLe(271, 2, 65, 0) \o EntryLe(274, 3, 6, 0) \o << 0, 0, 0, 0 >>

\* big-endian, Make, then Orientation = 3
TiffBe2 == SliceFrom(ExifBe(3), 10)

\* two Orientation entries, 5 and then 7
TiffTwice ==
    TiffHeaderLe \o << 2, 0 >> \o EntryLe(274, 3, 5, 0) \o EntryLe(274, 3, 7, 0) \o << 0, 0, 0, 0 >>

\* the IFD at offset 10, after two bytes of padding
TiffGap == << 73, 73, 42, 0, 10, 0, 0, 0, 9, 9 >> \o << 1, 0 >> \o EntryLe(274, 3, 4, 0)

\* the slices the extractor is applied to: every prefix of two well-formed
\* TIFF blocks, and blocks with one field off
ExifInputs ==
    { Slice(TiffLe2, 0, n) : n \in 0..Len(TiffLe2) }
      \cup { Slice(TiffBe2, 0, n) : n \in 0..Len(TiffBe2) }
      \cup { [TiffLe1 EXCEPT ![2] = 88],
              [TiffLe1 EXCEPT ![3] = 43],
              [TiffLe1 EXCEPT ![3] = 0, ![4] = 42],
              [TiffLe1 EXCEPT ![5] = 200],
              [TiffLe1 EXCEPT ![5] = 25],
              [TiffLe1 EXCEPT ![5] = 24],
              [TiffLe1 EXCEPT ![5] = 0],
              [TiffLe1 EXCEPT ![8] = 255],
              [TiffLe1 EXCEPT ![9] = 0],
              [TiffLe1 EXCEPT ![9] = 255, ![10] = 255],
              [TiffLe1 EXCEPT ![19] = 6, ![20] = 1],
              [TiffBe2 EXCEPT ![31] = 6, ![32] = 1],
              [TiffBe2 EXCEPT ![8] = 200],
              [TiffBe2 EXCEPT ![5] = 255],
              [TiffLe2 EXCEPT ![9] = 1],
              [TiffLe2 EXCEPT ![9] = 255, ![10] = 255, ![23] = 0],
              TiffTwice,
              TiffGap }

InitExif ==
    /\ data \in ExifInputs
    /\ Fresh

\* line 89: the extractor applied to the slice the caller holds
ExtractOrientation ==
    LET o == extract_orientation_from_exif(data) IN
    Return("extract_orientation_from_exif", << >>,
           IF o = OutOfBounds THEN Panic ELSE Ok(<< o >>), FALSE, FALSE)

\* line 113: the segment built for an orientation in 1..8; the caller goes on
\* with its TIFF part
CreateMinimalExif ==
    \E o \in 1..8 :
        /\ calls < MaxCalls
        /\ op' = "create_minimal_exif"
        /\ args' = << o >>
        /\ input' = data
        /\ result' = Ok(create_minimal_exif(o))
        /\ revalidated' = FALSE
        /\ data' = SliceFrom(create_minimal_exif(o), 10)
        /\ calls' = calls + 1
        /\ loop' = loop

NextExif ==
    \/ ExtractOrientation
    \/ CreateMinimalExif

Spec == Init /\ [][Next]_vars

SpecExif == InitExif /\ [][NextExif]_vars

SpecWalk == InitWalk /\ [][NextWalk]_vars

SpecAny == InitAny /\ [][NextAny]_vars

SpecLimit == InitLimit /\ [][NextLimit]_vars

SpecPng == InitPng /\ [][NextPng]_vars


(* ---------------- reading a JPEG marker stream ---------------- *)

\* The sized segments of d that come before its first SOS marker, each with its
\* marker and 0-based bounds (from is the FF byte, to is one past the last byte);
\* ok is FALSE when the bytes do not parse as a marker stream, sos is the
\* position of the SOS marker or -1.
RECURSIVE HeaderSegments(_, _, _)
HeaderSegments(d, pos, acc) ==
    IF pos + 1 >= Len(d) THEN [ok |-> TRUE, segs |-> acc, sos |-> -1]
    ELSE IF At(d, pos) # 255 THEN [ok |-> FALSE, segs |-> acc, sos |-> -1]
    ELSE IF At(d, pos + 1) = MARKER_SOS THEN [ok |-> TRUE, segs |-> acc, sos |-> pos]
    ELSE IF IsStandalone(At(d, pos + 1)) THEN HeaderSegments(d, pos + 2, acc)
    ELSE IF pos + 4 > Len(d) THEN [ok |-> FALSE, segs |-> acc, sos |-> -1]
    ELSE LET size == U16be(At(d, pos + 2), At(d, pos + 3)) IN
         IF size < 2 \/ pos + 2 + size > Len(d) THEN [ok |-> FALSE, segs |-> acc, sos |-> -1]
         ELSE HeaderSegments(d, pos + 2 + size,
                             Append(acc, [marker |-> At(d, pos + 1), from |-> pos,
                                          to |-> pos + 2 + size]))

Header(d) == HeaderSegments(d, 2, << >>)

SegBytes(d, seg) == Slice(d, seg.from, seg.to)

SegPayload(d, seg) == Slice(d, seg.from + 4, seg.to)

WithMarker(d, marker) == SelectSeq(Header(d).segs, LAMBDA seg : seg.marker = marker)

\* an APP1 segment with size > 8 whose payload starts with "Exif"
IsExifSeg(d, seg) ==
    /\ seg.marker = MARKER_APP1
    /\ seg.to - seg.from - 2 > 8
    /\ Slice(d, seg.from + 4, seg.from + 8) = ExifPrefix

\* the Orientation the first Exif segment of d carries, None when there is none
DeclaredOrientation(d) ==
    LET exifs == SelectSeq(Header(d).segs, LAMBDA seg : IsExifSeg(d, seg)) IN
    IF exifs = << >> THEN None
    ELSE extract_orientation_from_exif(Slice(d, exifs[1].from + 10, exifs[1].to))

CleanOk == op = "clean_metadata" /\ result.kind = "Ok"

(* ---------------- claims on clean_metadata ---------------- *)

\* C1: when the first Exif segment of the input carries Orientation o in 1..8,
\* the header of the output of clean_metadata holds exactly one APP1 segment,
\* the synthesized minimal EXIF, from which o is extracted again; when no
\* orientation in 1..8 was captured the output header holds no APP1 segment.
C1_OrientationKept ==
    CleanOk =>
        LET o == DeclaredOrientation(input)
            app1 == WithMarker(data, MARKER_APP1)
        IN /\ Header(data).ok
           /\ IF o \in 1..8
              THEN /\ Len(app1) = 1
                   /\ SegBytes(data, app1[1]) = create_minimal_exif(o)
                   /\ extract_orientation_from_exif(Slice(data, app1[1].from + 10, app1[1].to)) = o
              ELSE app1 = << >>

\* where the claim places the synthesized segment in the rebuilt stream: right
\* after its first APP0 segment, right after SOI when it has none
SplicePoint(rebuilt) ==
    LET app0 == WithMarker(rebuilt, MARKER_APP0) IN
    IF app0 = << >> THEN 2 ELSE app0[1].to

\* the stream clean_metadata rebuilt from the kept segments of d
Rebuilt(d) == CleanWalk(d, 2, JPEG_SOI, FALSE, None).output

\* C2: with an orientation in 1..8 the output is the rebuilt stream with the
\* synthesized EXIF segment placed right after its first APP0 segment, or right
\* after SOI when it has none; every other byte is kept once and in order.
C2_SplicedAfterApp0 ==
    (CleanOk /\ DeclaredOrientation(input) \in 1..8) =>
        LET rebuilt == Rebuilt(input)
            at == SplicePoint(rebuilt)
        IN data = Slice(rebuilt, 0, at) \o create_minimal_exif(DeclaredOrientation(input))
                    \o SliceFrom(rebuilt, at)

\* C3: a buffer clean_metadata returns as Ok starts with FF D8, was passed to the
\* validator after it was built, and the validator accepted it.
C3_OutputRevalidated ==
    CleanOk =>
        /\ Slice(data, 0, 2) = JPEG_SOI
        /\ revalidated
        /\ validate_jpeg_decode(data)

\* C4: clean_metadata applied to its own output succeeds and returns that output.
C4_CleanMetadataIdempotent ==
    CleanOk => clean_metadata(data) = Ok(data)


(* ---------------- claims on write_comment and read_comment ---------------- *)

WriteOk == op = "write_comment" /\ result.kind = "Ok"

\* the payloads of the COM segments before SOS, in stream order
ComPayloads(d) ==
    LET coms == WithMarker(d, MARKER_COM) IN
    [k \in 1..Len(coms) |-> SegPayload(d, coms[k])]

\* C6: the comment written by write_comment is the one read_comment returns
\* from the output, whatever COM segments the input held.
C6_CommentRoundTrip ==
    WriteOk => read_comment(data) = Ok(Some(args[1]))

\* C6 witness: a written comment replaced the different comments of an input
\* that held two COM segments before SOS
C6_Witness ==
    /\ WriteOk
    /\ Len(ComPayloads(input)) = 2
    /\ \A k \in 1..2 : ComPayloads(input)[k] # args[1]
    /\ Len(args[1]) > 1

\* C7: after a write_comment call, also one that follows other write_comment
\* calls, the marker stream before SOS holds exactly one COM segment and its
\* payload is the text of that call.
C7_SingleComment ==
    WriteOk => /\ Header(data).ok
               /\ ComPayloads(data) = << args[1] >>

\* C7 witness: the second of two write_comment calls, with another text than the first
C7_Witness ==
    /\ WriteOk
    /\ calls = 2
    /\ Len(ComPayloads(input)) = 1
    /\ ComPayloads(input)[1] \in Comments \ { args[1] }

(* ---------------- reading a PNG chunk stream ---------------- *)

\* The chunks of d that lie inside the buffer, up to and including its first
\* IEND chunk, each with its type and data.
RECURSIVE ChunksFrom(_, _, _)
ChunksFrom(d, pos, acc) ==
    IF pos + 8 > Len(d) THEN acc
    ELSE LET length == U32be(At(d, pos), At(d, pos + 1), At(d, pos + 2), At(d, pos + 3))
             chunk == [type |-> Slice(d, pos + 4, pos + 8),
                       data |-> Slice(d, pos + 8, pos + 8 + length)]
         IN IF pos + 12 + length > Len(d) THEN acc
            ELSE IF chunk.type = IEND THEN Append(acc, chunk)
            ELSE ChunksFrom(d, pos + 12 + length, Append(acc, chunk))

Chunks(d) == ChunksFrom(d, 8, << >>)

HasNull(v) == \E k \in 1..Len(v) : v[k] = 0

\* the bytes of v before its first null byte
RECURSIVE UpToNull(_)
UpToNull(v) == IF v = << >> \/ v[1] = 0 THEN << >> ELSE << v[1] >> \o UpToNull(Tail(v))

\* the bytes of v after its first null byte
AfterNull(v) == SubSeq(v, Len(UpToNull(v)) + 2, Len(v))

\* the text of a zlib stream that consists of one stored block
InflateStored(z) == SubSeq(z, 8, 7 + z[4] + 256 * z[5])

\* the text a zTXt chunk carries: keyword, null, method, compressed text
ZtxtText(chunk_data) == InflateStored(Tail(AfterNull(chunk_data)))

\* the text an iTXt chunk carries: keyword, null, flag, method, language tag,
\* null, translated keyword, null, text (compressed when the flag is 1)
ItxtText(chunk_data) ==
    LET rest == AfterNull(chunk_data)
        text == AfterNull(AfterNull(SubSeq(rest, 3, Len(rest))))
    IN IF rest[1] = 1 THEN InflateStored(text) ELSE text

ReadTextOk == op = "read_text_chunks" /\ result.kind = "Ok"

AddTextOk == op = "add_text_chunk" /\ result.kind = "Ok"

(* ---------------- claims on the PNG operations ---------------- *)

\* C5: clean_chunks applied to its own output succeeds and returns that output.
C5_CleanChunksIdempotent ==
    (op = "clean_chunks" /\ result.kind = "Ok") => clean_chunks(data) = Ok(data)

\* C5 witness: clean_chunks succeeded and dropped at least two chunks
C5_Witness ==
    /\ op = "clean_chunks" /\ result.kind = "Ok"
    /\ Len(Chunks(data)) + 2 <= Len(Chunks(input))

\* C8: read_text_chunks of the output of add_text_chunk(x, k, t) is
\* read_text_chunks of x followed by the one entry (k, t).
C8_AddTextAppends ==
    AddTextOk =>
        read_text_chunks(data) =
            Ok(read_text_chunks(input).value \o << TextChunk(args[1], args[2]) >>)

\* C8 witness: the second of two calls with the same keyword, the text holding a null byte
C8_Witness ==
    /\ AddTextOk
    /\ calls = 2
    /\ HasNull(args[2])
    /\ LET before == read_text_chunks(input).value IN
         /\ before # << >>
         /\ before[Len(before)].keyword = args[1]
         /\ before[Len(before)].text # args[2]

\* C9: a tEXt chunk of nonzero length without a null byte gives one entry with
\* an empty keyword and the whole chunk data as text.
C9_TextWithoutNullReported ==
    ReadTextOk =>
        \A k \in 1..Len(Chunks(input)) :
            LET chunk == Chunks(input)[k] IN
            (chunk.type = tEXt /\ chunk.data # << >> /\ ~HasNull(chunk.data)) =>
                \E e \in 1..Len(result.value) :
                    result.value[e] = TextChunk(<< >>, from_utf8_lossy(chunk.data))

\* C10: for a PNG whose only text-carrying chunk is one zTXt or one iTXt chunk,
\* read_text_chunks returns exactly one entry, with the keyword and the
\* (decompressed) text of that chunk.
C10_CompressedTextReported ==
    ReadTextOk =>
        LET carrying == SelectSeq(Chunks(input), LAMBDA c : c.type \in {tEXt, zTXt, iTXt}) IN
        (Len(carrying) = 1 /\ carrying[1].type \in {zTXt, iTXt}) =>
            result.value =
                << TextChunk(from_utf8_lossy(UpToNull(carrying[1].data)),
                             from_utf8_lossy(IF carrying[1].type = zTXt
                                             THEN ZtxtText(carrying[1].data)
                                             ELSE ItxtText(carrying[1].data))) >>

\* the chunks of d that lie inside the buffer, up to and including its first
\* IEND chunk, each with its type and all its bytes (length, type, data, CRC)
RECURSIVE RawChunksFrom(_, _, _)
RawChunksFrom(d, pos, acc) ==
    IF pos + 8 > Len(d) THEN acc
    ELSE LET length == U32be(At(d, pos), At(d, pos + 1), At(d, pos + 2), At(d, pos + 3))
             chunk == [type |-> Slice(d, pos + 4, pos + 8),
                       bytes |-> Slice(d, pos, pos + 12 + length)]
         IN IF pos + 12 + length > Len(d) THEN acc
            ELSE IF chunk.type = IEND THEN Append(acc, chunk)
            ELSE RawChunksFrom(d, pos + 12 + length, Append(acc, chunk))

RawChunks(d) == RawChunksFrom(d, 8, << >>)

CleanChunksOk == op = "clean_chunks" /\ result.kind = "Ok"

\* C11: the output of clean_chunks is the signature followed by the chunks of
\* the input, up to and including its first IEND, whose type is one of the
\* eleven listed, each with all its bytes and in input order; no other chunk.
C11_AllowListKept ==
    CleanChunksOk =>
        LET listed == { IHDR, PLTE, IDAT, IEND, tRNS, gAMA, cHRM, sRGB, iCCP, sBIT, pHYs }
            kept == SelectSeq(RawChunks(input), LAMBDA c : c.type \in listed)
        IN data = PNG_SIGNATURE \o Concat([k \in 1..Len(kept) |-> kept[k].bytes])

\* C11 witness: a PNG with a bKGD chunk followed by a gAMA chunk was cleaned
C11_Witness ==
    /\ CleanChunksOk
    /\ \E k \in 1..(Len(RawChunks(input)) - 1) :
          /\ RawChunks(input)[k].type = bKGD
          /\ RawChunks(input)[k + 1].type = gAMA
    /\ \E k \in 1..Len(RawChunks(data)) : RawChunks(data)[k].type = gAMA

(* ---------------- claims on the walks of the JPEG operations ---------------- *)

\* the keep rule as the claim words it, for a sized segment of d before SOS
ClaimKeeps(d, seg) ==
    \/ seg.marker \in (192..207)
    \/ seg.marker \in {219, 221, 224}
    \/ /\ seg.marker = 226
       /\ seg.to - seg.from - 2 > 14
       /\ Slice(d, seg.from + 4, seg.from + 16) = IccPrefix

\* the bytes of the segments of segs, in order
BytesOf(d, segs) == [k \in 1..Len(segs) |-> SegBytes(d, segs[k])]

\* C12: the sized segments before SOS of the output of clean_metadata, the
\* synthesized APP1 set aside, are the segments of the input that the rule
\* keeps (SOF, DHT, DQT, DRI, APP0, and APP2 with size > 14 and the ICC
\* prefix), verbatim and in input order; read_comment on the output returns None.
C12_KeepRulePerSegment ==
    CleanOk =>
        /\ Header(data).ok
        /\ BytesOf(data, SelectSeq(Header(data).segs, LAMBDA seg : seg.marker # MARKER_APP1))
             = BytesOf(input, SelectSeq(Header(input).segs, LAMBDA seg : ClaimKeeps(input, seg)))
        /\ read_comment(data) = Ok(NoString)

\* C13: the output of clean_metadata is never longer than its input.
C13_NeverLonger ==
    CleanOk => Len(data) <= Len(input)

\* The units of the marker stream of d in order: standalone markers (2 bytes),
\* sized segments, and, as the last unit, the SOS marker with all that follows.
RECURSIVE UnitsFrom(_, _, _)
UnitsFrom(d, pos, acc) ==
    IF pos + 1 >= Len(d) \/ At(d, pos) # 255 THEN acc
    ELSE LET marker == At(d, pos + 1) IN
         IF marker = MARKER_SOS
         THEN Append(acc, [marker |-> marker, from |-> pos, to |-> Len(d)])
         ELSE IF IsStandalone(marker)
         THEN UnitsFrom(d, pos + 2, Append(acc, [marker |-> marker, from |-> pos, to |-> pos + 2]))
         ELSE IF pos + 4 > Len(d) THEN acc
         ELSE LET size == U16be(At(d, pos + 2), At(d, pos + 3)) IN
              IF size < 2 \/ pos + 2 + size > Len(d) THEN acc
              ELSE UnitsFrom(d, pos + 2 + size,
                             Append(acc, [marker |-> marker, from |-> pos, to |-> pos + 2 + size]))

Units(d) == UnitsFrom(d, 2, << >>)

\* C14: the output of write_comment is SOI, the units of the input that are not
\* COM segments, verbatim and in order, and the new COM segment placed once,
\* right before the first of them that is a DQT segment or the SOS marker, or
\* after all of them when there is neither.
C14_InsertedBeforeDqtOrSos ==
    WriteOk =>
        LET kept == SelectSeq(Units(input), LAMBDA u : u.marker # MARKER_COM)
            stops == { k \in 1..Len(kept) : kept[k].marker \in {MARKER_DQT, MARKER_SOS} }
            at == IF stops = {} THEN Len(kept) + 1
                  ELSE CHOOSE k \in stops : \A j \in stops : k <= j
        IN data = JPEG_SOI
                    \o Concat(BytesOf(input, SubSeq(kept, 1, at - 1)))
                    \o Seg(MARKER_COM, args[1])
                    \o Concat(BytesOf(input, SubSeq(kept, at, Len(kept))))

\* C14 witness: the input held a DQT segment before SOS and, between the two,
\* a COM segment; the new segment went before the DQT segment
C14_Witness ==
    /\ WriteOk
    /\ \E j, k \in 1..Len(Units(input)) :
          /\ j < k
          /\ Units(input)[j].marker = MARKER_DQT
          /\ Units(input)[k].marker = MARKER_COM
          /\ Units(input)[Len(Units(input))].marker = MARKER_SOS
    /\ \E k \in 1..(Len(Units(data)) - 1) :
          /\ Units(data)[k].marker = MARKER_COM
          /\ Units(data)[k + 1].marker = MARKER_DQT

ReadCommentOk == op = "read_comment" /\ result.kind = "Ok"

\* the sized segments of d in stream order when the SOS marker does not end
\* the walk: SOS is passed over by its size field like any other segment
RECURSIVE SegmentsPastSos(_, _, _)
SegmentsPastSos(d, pos, acc) ==
    IF pos + 1 >= Len(d) \/ At(d, pos) # 255 THEN acc
    ELSE IF IsStandalone(At(d, pos + 1)) THEN SegmentsPastSos(d, pos + 2, acc)
    ELSE IF pos + 4 > Len(d) THEN acc
    ELSE LET size == U16be(At(d, pos + 2), At(d, pos + 3)) IN
         IF size < 2 \/ pos + 2 + size > Len(d) THEN acc
         ELSE SegmentsPastSos(d, pos + 2 + size,
                              Append(acc, [marker |-> At(d, pos + 1), from |-> pos,
                                           to |-> pos + 2 + size]))

\* what the first COM segment of segs gives: its payload decoded, None without one
FirstComment(d, segs) ==
    LET coms == SelectSeq(segs, LAMBDA seg : seg.marker = MARKER_COM) IN
    IF coms = << >> THEN NoString
    ELSE Some(from_utf8_lossy(SegPayload(d, coms[1])))

\* C15 as stated: read_comment returns the payload of the first COM segment in
\* stream order, also when that segment comes after the SOS marker, the empty
\* string for a COM segment of size 2, and None when there is no COM segment.
C15_FirstCommentPastSos ==
    ReadCommentOk => result.value = FirstComment(input, SegmentsPastSos(input, 2, << >>))

\* C15 amended: read_comment returns the payload of the first COM segment that
\* comes before the SOS marker, the empty string when that segment has size 2,
\* and None when no COM segment comes before SOS: the SOS marker ends the search.
C15_FirstCommentBeforeSos ==
    ReadCommentOk => result.value = FirstComment(input, Header(input).segs)

\* C15 witness: the only COM segment of the input comes after SOS and
\* read_comment returned None
C15_Witness ==
    /\ ReadCommentOk
    /\ WithMarker(input, MARKER_COM) = << >>
    /\ FirstComment(input, SegmentsPastSos(input, 2, << >>)).some
    /\ result.value = NoString

(* ---------------- claims on errors ---------------- *)

\* a keyword the claim rejects: byte length outside 1..79, or a byte that is
\* not an ASCII letter, an ASCII digit or the space
ClaimRejectsKeyword(keyword) ==
    \/ Len(keyword) < 1
    \/ Len(keyword) > 79
    \/ \E k \in 1..Len(keyword) :
          keyword[k] \notin ((48..57) \cup (65..90) \cup (97..122) \cup {32})

\* C16: on a PNG the validator accepts, add_text_chunk returns InvalidFormat
\* exactly when the keyword is rejected by the rule above, also when the
\* buffer holds no IEND chunk (the keyword is checked before the search).
C16_KeywordRule ==
    (op = "add_text_chunk" /\ validate_png_decode(input)) =>
        (result = InvalidFormat <=> ClaimRejectsKeyword(args[1]))

\* C16 witness: a keyword of 80 bytes was refused with InvalidFormat on an
\* accepted PNG that holds no IEND chunk
C16_Witness ==
    /\ op = "add_text_chunk"
    /\ validate_png_decode(input)
    /\ \A k \in 1..Len(RawChunks(input)) : RawChunks(input)[k].type # IEND
    /\ Len(args[1]) = 80
    /\ result = InvalidFormat

\* C17: on an accepted, well-formed stream write_comment returns InvalidFormat
\* for a text of more than 65533 bytes and succeeds for every shorter one; the
\* size field of the COM segment it writes is the length of the text plus 2.
C17_CommentLengthLimit ==
    (op = "write_comment" /\ validate_jpeg_decode(input) /\ result.kind # "ParseError") =>
        IF Len(args[1]) > 65533
        THEN result = InvalidFormat
        ELSE /\ result.kind = "Ok"
             /\ LET coms == WithMarker(data, MARKER_COM) IN
                  /\ Len(coms) = 1
                  /\ 256 * At(data, coms[1].from + 2) + At(data, coms[1].from + 3)
                       = Len(args[1]) + 2
                  /\ coms[1].to - coms[1].from - 2 = Len(args[1]) + 2

\* C17 witness: a text of 65533 bytes was written and the size field is FF FF
C17_Witness ==
    /\ WriteOk
    /\ Len(args[1]) = 65533
    /\ LET coms == WithMarker(data, MARKER_COM) IN
         /\ Len(coms) = 1
         /\ Slice(data, coms[1].from + 2, coms[1].from + 4) = << 255, 255 >>

\* the buffer is shorter than the JPEG operations ask for or does not start with FF D8
NotJpeg(d) == Len(d) < 4 \/ SubSeq(d, 1, 2) # << 255, 216 >>

\* the buffer is shorter than the PNG signature or does not start with it
NotPng(d) == Len(d) < 8 \/ SubSeq(d, 1, 8) # << 137, 80, 78, 71, 13, 10, 26, 10 >>

\* C18: each of the six operations returns InvalidFormat on a buffer that is
\* too short or does not begin with the signature of its format, whatever the
\* text or keyword passed with it.
C18_BadSignatureIsInvalidFormat ==
    /\ (op \in {"clean_metadata", "read_comment", "write_comment"} /\ NotJpeg(input))
          => result = InvalidFormat
    /\ (op \in {"clean_chunks", "read_text_chunks", "add_text_chunk"} /\ NotPng(input))
          => result = InvalidFormat

\* C18 witness: add_text_chunk was called with a keyword the rule rejects and
\* with an accepted JPEG stream as its buffer, after a JPEG operation succeeded
C18_Witness ==
    /\ op = "add_text_chunk"
    /\ calls = 2
    /\ validate_jpeg_decode(input)
    /\ ClaimRejectsKeyword(args[1])
    /\ result = InvalidFormat

\* C19: on a buffer that passes the signature check and the validator,
\* read_comment returns ParseError whenever clean_metadata returns ParseError,
\* also when the malformed segment comes after a COM segment.
C19_ReadCommentFailsLikeClean ==
    (op = "read_comment" /\ ~NotJpeg(input) /\ validate_jpeg_decode(input)) =>
        (clean_metadata(input) = ParseError => result = ParseError)

\* The position of the first chunk of d, met before any IEND chunk, whose
\* header is cut by the end of the buffer or whose declared length runs past
\* it; None when the chunks up to IEND, or up to the end, are whole, and when
\* only the CRC of the last chunk is cut.
RECURSIVE BrokenFrom(_, _)
BrokenFrom(d, pos) ==
    IF pos >= Len(d) THEN None
    ELSE IF pos + 8 > Len(d) THEN pos
    ELSE LET length == U32be(At(d, pos), At(d, pos + 1), At(d, pos + 2), At(d, pos + 3)) IN
         IF pos + 8 + length > Len(d) THEN pos
         ELSE IF pos + 12 + length > Len(d) THEN None
         ELSE IF Slice(d, pos + 4, pos + 8) = IEND THEN None
         ELSE BrokenFrom(d, pos + 12 + length)

BrokenAt(d) == BrokenFrom(d, 8)

\* the entry section 4.2 gives for the data of one tEXt chunk of nonzero length
EntryOf(chunk_data) ==
    IF HasNull(chunk_data)
    THEN TextChunk(from_utf8_lossy(UpToNull(chunk_data)), from_utf8_lossy(AfterNull(chunk_data)))
    ELSE TextChunk(<< >>, from_utf8_lossy(chunk_data))

\* the entries of the tEXt chunks among the whole chunks of d
EntriesBeforeBreak(d) ==
    LET texts == SelectSeq(Chunks(d), LAMBDA c : c.type = tEXt /\ c.data # << >>) IN
    [k \in 1..Len(texts) |-> EntryOf(texts[k].data)]

\* C20: on an accepted PNG with a chunk that is cut or runs past the end of the
\* buffer, met before any IEND, read_text_chunks returns Ok with the entries
\* of the tEXt chunks before it, clean_chunks returns ParseError, and
\* add_text_chunk, given a keyword it accepts, returns ParseError.
C20_BrokenChunk ==
    (validate_png_decode(input) /\ BrokenAt(input) # None) =>
        /\ op = "read_text_chunks" => result = Ok(EntriesBeforeBreak(input))
        /\ op = "clean_chunks" => result = ParseError
        /\ (op = "add_text_chunk" /\ ~ClaimRejectsKeyword(args[1])) => result = ParseError

(* ---------------- claims on what the PNG operations build ---------------- *)

C22_TailFromSosKept ==
    ((CleanOk \/ WriteOk) /\ Header(input).sos # -1) =>
        /\ Header(data).ok
        /\ Header(data).sos # -1
        /\ SliceFrom(data, Header(data).sos) = SliceFrom(input, Header(input).sos)

\* the offset of the first IEND chunk the walk over d finds: the first chunk
\* header of type IEND that follows a run of whole chunks; None when the walk
\* ends without one
RECURSIVE FirstIendFrom(_, _)
FirstIendFrom(d, pos) ==
    IF pos + 8 > Len(d) THEN None
    ELSE IF SubSeq(d, pos + 5, pos + 8) = << 73, 69, 78, 68 >> THEN pos
    ELSE LET length == U32be(At(d, pos), At(d, pos + 1), At(d, pos + 2), At(d, pos + 3)) IN
         IF pos + 12 + length > Len(d) THEN None
         ELSE FirstIendFrom(d, pos + 12 + length)

FirstIend(d) == FirstIendFrom(d, 8)

\* C23: when add_text_chunk succeeds its output is the input up to the first
\* IEND chunk, one new tEXt chunk (length len(keyword) + 1 + len(text), data
\* keyword, null, text, CRC over type and data), then the input from the first
\* IEND on, 13 + len(keyword) + len(text) bytes longer than the input; when an
\* accepted PNG holds no IEND chunk the call, given a keyword it accepts, fails
\* with ParseError.
C23_ChunkSplicedBeforeIend ==
    /\ AddTextOk =>
          LET at == FirstIend(input)
              chunk_data == args[1] \o << 0 >> \o args[2]
          IN /\ at # None
             /\ data = Slice(input, 0, at)
                         \o Be32Bytes(Len(args[1]) + 1 + Len(args[2])) \o tEXt \o chunk_data
                         \o ToBeBytes(calculate_crc(tEXt, chunk_data))
                         \o SliceFrom(input, at)
             /\ Len(data) = Len(input) + 13 + Len(args[1]) + Len(args[2])
    /\ (/\ op = "add_text_chunk"
        /\ ~NotPng(input)
        /\ validate_png_decode(input)
        /\ ~ClaimRejectsKeyword(args[1])
        /\ FirstIend(input) = None) => result = ParseError

\* C23 witness: a text that is not empty was added to an input that holds
\* chunks before its IEND chunk and bytes after it
C23_Witness ==
    /\ AddTextOk
    /\ args[2] # << >>
    /\ FirstIend(input) > 8 + 25 + 16
    /\ Len(input) > FirstIend(input) + 12

\* the walk of a marker stream up to SOS: ok is FALSE when a marker does not
\* start with FF, a length field is cut or below 2, or a segment runs past the
\* end; standalone lists the markers D0-D9 met on the way
RECURSIVE WalkBeforeSos(_, _, _)
WalkBeforeSos(d, pos, standalone) ==
    IF pos + 2 > Len(d) THEN [ok |-> TRUE, standalone |-> standalone]
    ELSE IF d[pos + 1] # 255 THEN [ok |-> FALSE, standalone |-> standalone]
    ELSE IF d[pos + 2] = 218 THEN [ok |-> TRUE, standalone |-> standalone]
    ELSE IF d[pos + 2] \in 208..217 THEN WalkBeforeSos(d, pos + 2, Append(standalone, d[pos + 2]))
    ELSE IF pos + 4 > Len(d) THEN [ok |-> FALSE, standalone |-> standalone]
    ELSE LET size == d[pos + 3] * 256 + d[pos + 4] IN
         IF size < 2 \/ pos + 2 + size > Len(d) THEN [ok |-> FALSE, standalone |-> standalone]
         ELSE WalkBeforeSos(d, pos + 2 + size, standalone)

\* C24: on a JPEG the validator accepts, clean_metadata and write_comment
\* return ParseError and no buffer exactly when the walk before SOS meets a
\* byte other than FF where a marker is expected, a length field below 2 or
\* cut by the end of the buffer, or a segment that runs past the end; the
\* standalone markers D0-D9 are copied without a length being read.
C24_MalformedIsParseError ==
    (/\ op \in {"clean_metadata", "write_comment"}
     /\ ~NotJpeg(input)
     /\ validate_jpeg_decode(input)) =>
        LET w == WalkBeforeSos(input, 2, << >>) IN
        /\ ~w.ok => (result = ParseError /\ data = input)
        /\ w.ok => result # ParseError
        /\ (w.ok /\ op = "clean_metadata") =>
              WalkBeforeSos(CleanWalk(input, 2, JPEG_SOI, FALSE, None).output, 2, << >>).standalone
                = w.standalone
        /\ WriteOk => WalkBeforeSos(data, 2, << >>).standalone = w.standalone

\* C24 witness: write_comment failed on a stream whose last segment declares
\* the length 1
C24_Witness ==
    /\ op = "write_comment"
    /\ result = ParseError
    /\ Len(input) > 4
    /\ SubSeq(input, Len(input) - 3, Len(input)) = << 255, 254, 0, 1 >>

(* ---------------- claims on the orientation ---------------- *)

\* C25: the orientation clean_metadata captures is decided by the first APP1
\* segment with size > 8 and a payload starting with Exif, and by no other
\* segment: a later APP1 segment never changes it, also when the first one
\* yielded no orientation, and an APP1 segment that is too short or has
\* another prefix decides nothing.
C25_FirstExifDecides ==
    (/\ op = "clean_metadata"
     /\ ~NotJpeg(input)
     /\ validate_jpeg_decode(input)
     /\ Header(input).ok) =>
        LET o == DeclaredOrientation(input) IN
        /\ CleanWalk(input, 2, JPEG_SOI, FALSE, None).orientation = o
        /\ (CleanOk /\ o \in 1..8) =>
              \E i \in 0..(Len(data) - 36) : Slice(data, i, i + 36) = create_minimal_exif(o)
        /\ (CleanOk /\ o \notin 1..8) =>
              data = CleanWalk(input, 2, JPEG_SOI, FALSE, None).output

\* C25 witness: the first Exif segment of the input carries no orientation, a
\* later one carries the orientation 6, and the output holds no APP1 segment
C25_Witness ==
    /\ CleanOk
    /\ LET exifs == SelectSeq(Header(input).segs, LAMBDA seg : IsExifSeg(input, seg)) IN
         /\ Len(exifs) = 2
         /\ extract_orientation_from_exif(Slice(input, exifs[1].from + 10, exifs[1].to)) = None
         /\ extract_orientation_from_exif(Slice(input, exifs[2].from + 10, exifs[2].to)) = 6
    /\ WithMarker(data, MARKER_APP1) = << >>

\* a 16-bit field of t at offset off, in the byte order t declares
Field16(t, off) ==
    IF t[1] = 73 THEN t[off + 1] + 256 * t[off + 2] ELSE 256 * t[off + 1] + t[off + 2]

\* the offset of IFD0 that t declares, Len(t) when the field is not below it
Ifd0Of(t) ==
    LET b == IF t[1] = 73 THEN << t[5], t[6], t[7], t[8] >> ELSE << t[8], t[7], t[6], t[5] >> IN
    IF b[3] # 0 \/ b[4] # 0 \/ b[1] + 256 * b[2] >= Len(t) THEN Len(t)
    ELSE b[1] + 256 * b[2]

\* what the claim says the extractor returns on t
ClaimedOrientation(t) ==
    IF Len(t) < 8 THEN None
    ELSE IF << t[1], t[2] >> \notin { << 73, 73 >>, << 77, 77 >> } THEN None
    ELSE IF Field16(t, 2) # 42 THEN None
    ELSE IF Ifd0Of(t) + 2 > Len(t) THEN None
    ELSE LET first == Ifd0Of(t) + 2
             fitting == { i \in 0..(Len(t) \div 12) :
                            i < Field16(t, Ifd0Of(t)) /\ first + 12 * i + 12 <= Len(t) }
             tagged == { i \in fitting : Field16(t, first + 12 * i) = 274 }
         IN IF tagged = {} THEN None
            ELSE LET i == CHOOSE j \in tagged : \A k \in tagged : j <= k
                 IN Field16(t, first + 12 * i + 8)

\* C26: extract_orientation_from_exif is total: on every byte sequence it
\* returns None when the buffer is shorter than 8 bytes, the byte order is
\* neither II nor MM, the magic number is not 42, or the IFD0 offset or an
\* entry lies past the end, and otherwise the inline 2-byte value, in the
\* declared byte order, of the first entry with tag 0x0112 among the first
\* entry_count entries that fit; no index it uses lies outside the buffer.
C26_ExtractorTotal ==
    op = "extract_orientation_from_exif" =>
        /\ result.kind = "Ok"
        /\ result.value = << ClaimedOrientation(input) >>
        /\ extract_orientation_from_exif(input) # OutOfBounds

\* C26 witness: the Orientation entry is the second of the IFD and its two
\* value bytes differ, in a big-endian block
C26_Witness ==
    /\ op = "extract_orientation_from_exif"
    /\ Len(input) >= 34
    /\ << input[1], input[2] >> = << 77, 77 >>
    /\ result = Ok(<< 1537 >>)

\* C27: for every orientation in 1..8 the synthesized segment has 36 bytes and
\* a length field of 34, holds one IFD0 entry (tag 0x0112, type SHORT, count
\* 1) and a zero next-IFD pointer, and the extractor applied to its TIFF part
\* returns that orientation.
C27_MinimalExifRoundTrip ==
    op = "create_minimal_exif" =>
        LET seg == result.value
            o == args[1]
        IN /\ Len(seg) = 36
           /\ SubSeq(seg, 1, 4) = << 255, 225, 0, 34 >>
           /\ SubSeq(seg, 5, 10) = << 69, 120, 105, 102, 0, 0 >>
           /\ SubSeq(seg, 11, 18) = << 73, 73, 42, 0, 8, 0, 0, 0 >>
           /\ SubSeq(seg, 19, 20) = << 1, 0 >>
           /\ SubSeq(seg, 21, 28) = << 18, 1, 3, 0, 1, 0, 0, 0 >>
           /\ SubSeq(seg, 33, 36) = << 0, 0, 0, 0 >>
           /\ data = SubSeq(seg, 11, 36)
           /\ extract_orientation_from_exif(data) = o

\* C27 witness: the segment was built for orientation 8 and the extractor,
\* applied to its TIFF part, returned 8
C27_Witness ==
    /\ op = "extract_orientation_from_exif"
    /\ result = Ok(<< 8 >>)
    /\ input = SubSeq(create_minimal_exif(8), 11, 36)
    /\ calls = 2

(* ---------------- claims on panics, completeness and termination ---------------- *)

\* C28: every call of clean_metadata ends with Ok or an error and never with
\* an index or slice out of range, also when FF E0 occurs in the last bytes of
\* the rebuilt stream or with a size that runs past its end.
C28_CleanNeverPanics ==
    op = "clean_metadata" => result.kind \in {"Ok", "InvalidFormat", "ParseError"}

\* C29: every buffer clean_chunks returns as Ok is a complete chunk sequence:
\* its last chunk is IEND and no byte follows that chunk, also when the input
\* has bytes after IEND or ends without an IEND chunk.
C29_OutputEndsWithIend ==
    CleanChunksOk =>
        LET raw == RawChunks(data) IN
        /\ raw # << >>
        /\ raw[Len(raw)].type = IEND
        /\ data = PNG_SIGNATURE \o Concat([k \in 1..Len(raw) |-> raw[k].bytes])

\* the least advance of one iteration: a JPEG marker, a PNG chunk header and
\* CRC, one byte of the splice scan
MinAdvance ==
    IF op \in JpegLoops THEN 2 ELSE IF op \in PngLoops THEN 12 ELSE 1

\* C30: every walk loop of the six operations and the splice scan terminates:
\* an iteration either leaves the loop or moves the position forward, by at
\* least 2 bytes per JPEG marker, 12 per PNG chunk and 1 per splice-scan
\* step, and never past the end, so the iterations number at most the buffer
\* length.
C30_WalksTerminate ==
    loop.steps > 0 =>
        /\ loop.steps <= Len(data)
        /\ loop.pos # LoopEnds =>
              (loop.pos >= loop.from + MinAdvance /\ loop.pos <= Len(data))

\* C30 witness: the splice scan stepped over an APP0 segment, went on byte by
\* byte and left its loop
C30_Witness ==
    /\ op = "splice_scan"
    /\ loop.inserted
    /\ loop.pos = LoopEnds
    /\ loop.steps > 20


====
